---- MODULE Spec2Model ----
(* Bike alternator / LED headlight controller                              *)
(* (Bike_Alternator_and_LED_Headlight.ino).                                *)
(*                                                                         *)
(* Number representation.  The sketch computes in 32-bit floats; the model *)
(* holds every float as an exact fixed-point integer:                      *)
(*   voltages in microvolts, alternator current in microamperes, battery   *)
(*   current in milliamperes.                                              *)
(* The smoothing window holds raw ADC counts; the scale factor 40.0/1023.0 *)
(* is applied to the window total (scaling is linear, so the order does    *)
(* not change the exact value).  The rounding of the float operations is   *)
(* left out of the control-loop specifications and modelled on its own:    *)
(* smoothAltVoltageF32 and SpecFloat, SpecEdge run smoothAltVoltage() in   *)
(* binary32 arithmetic.  uint32_t/long time stamps are held as the         *)
(* 32-bit pattern read in two's complement, so 0, 1, 2, ... are themselves *)
(* and the values just below the wrap at 2^32 are -1, -2, ...              *)
EXTENDS Integers, Sequences, FiniteSets, TLC

VARIABLES
    pc,                     \* position of loop(): the next call it makes
    now,                    \* millis(), the free running millisecond counter
    altReadings,            \* float altReadings[altReadCount]   (ADC counts)
    altReadIndex,           \* int altReadIndex
    altReadTotal,           \* float altReadTotal                (ADC counts)
    alternatorVoltageIn,    \* float alternatorVoltageIn         (uV)
    alternatorCurrentIn,    \* float alternatorCurrentIn         (uA)
    batteryVoltageIn,       \* float batteryVoltageIn            (uV)
    batteryCurrentIn,       \* float batteryCurrentIn            (mA)
    systemLedTemperatureIn, \* int systemLedTemperatureIn        (ADC counts)
    boostVoltageIn,         \* float boostVoltageIn              (uV)
    chargeCharge,           \* boolean chargeCharge  (TRUE = HIGH)
    chargeDone,             \* boolean chargeDone
    chargePower,            \* boolean chargePower
    errorLevel,             \* byte errorLevel
    alternatorStatus,       \* byte alternatorStatus
    batteryStatus,          \* byte batteryStatus
    chargeStatus,           \* byte chargeStatus
    systemLedLevelOut,      \* long systemLedLevelOut
    led1Level,              \* long led1Level
    led2Level,              \* long led2Level
    alarmState,             \* boolean alarmState    (TRUE = HIGH)
    alarmAudibleTime,       \* uint32_t alarmAudibleTime
    displayUpdateTime,      \* long displayUpdateTime
    indicatorBlinkTime,     \* long indicatorBlinkTime
    indicatorBlinkState,    \* boolean indicatorBlinkState
    alarmPin,               \* level last written to alarmPin
    dac1,                   \* value last passed to Led1.setVoltage
    dac2,                   \* value last passed to Led2.setVoltage
    pixels,                 \* colours last set on the three indicator pixels
    script,                 \* counts the alternator-voltage pin delivers next
    led2OffsetP1,           \* part_001: long led2Offset
    systemLedRange,         \* part_001: long systemLedRange
    I_BATT,                 \* part_002: int I_BATT
    LED_BRT,                \* part_002: int LED_BRT
    LED1_PWM,               \* part_002: int LED1_PWM
    LED2_PWM                \* part_002: int LED2_PWM

vars == << pc, now, altReadings, altReadIndex, altReadTotal,
           alternatorVoltageIn, alternatorCurrentIn, batteryVoltageIn,
           batteryCurrentIn, systemLedTemperatureIn, boostVoltageIn,
           chargeCharge, chargeDone, chargePower, errorLevel,
           alternatorStatus, batteryStatus, chargeStatus, systemLedLevelOut,
           led1Level, led2Level, alarmState, alarmAudibleTime,
           displayUpdateTime, indicatorBlinkTime, indicatorBlinkState,
           alarmPin, dac1, dac2, pixels, script, led2OffsetP1,
           systemLedRange, I_BATT, LED_BRT, LED1_PWM, LED2_PWM >>

sensorVars == << altReadings, altReadIndex, altReadTotal,
                 alternatorVoltageIn, alternatorCurrentIn, batteryVoltageIn,
                 batteryCurrentIn, systemLedTemperatureIn, boostVoltageIn,
                 chargeCharge, chargeDone, chargePower >>

statusVars == << alternatorStatus, batteryStatus, chargeStatus >>

ledVars == << systemLedLevelOut, led1Level, led2Level, dac1, dac2 >>

alarmVars == << alarmState, alarmAudibleTime, alarmPin >>

indicatorVars == << displayUpdateTime, indicatorBlinkTime,
                    indicatorBlinkState, pixels >>

\* The scripted input and the globals that only the earlier variants of the
\* sketch (part_001, part_002) have.
variantVars == << script, led2OffsetP1, systemLedRange, I_BATT, LED_BRT,
                 LED1_PWM, LED2_PWM >>

-----------------------------------------------------------------------------
(* Program constants                                                       *)

HIGH == TRUE
LOW == FALSE

adcMax == 1023
altReadCount == 11

alternatorVoltageMax == 33900000
alternatorVoltageHi == 30000000
alternatorVoltageVpcc == 7100000
alternatorVoltageMin == 4700000
alternatorCurrentMax == 2500000

batteryVoltageMin == 3000000
batteryVoltageLow == 3400000
batteryVoltageMid == 3800000
batteryVoltageMax == 4210000
batteryCurrentMax == 1750

systemLedTemperatureMax == 660
systemLedTemperatureHi == 650

dacRange == 4096
led2Offset == (dacRange * 75) \div 100
systemLedLevelMax == (dacRange * 175) \div 100
systemLedLevelBbu == 2500
systemLedLevelMin == 1150
ledDeadZoneLow == 900
bbuBandDrop == 350

alarmAudibleDuration == 1000
displayUpdateInterval == 250
indicatorBlinkInterval == 250

indOff == "off"
indRed == "red"
indYel == "yellow"
indGreen == "green"
indBlue == "blue"
indWhite == "white"

-----------------------------------------------------------------------------
(* Arithmetic helpers                                                      *)

Abs(n) == IF n < 0 THEN -n ELSE n

\* C integer division: the quotient is truncated towards zero.
TruncDiv(a, b) ==
    IF (a >= 0) = (b > 0) THEN Abs(a) \div Abs(b) ELSE -(Abs(a) \div Abs(b))

\* count * (fullScaleMilli / 1000) / den in micro-units, rounded down, the
\* product being split so that no intermediate exceeds 31 bits.
ScaleMicro(count, fullScaleMilli, den) ==
    LET p == count * fullScaleMilli
    IN  (p \div den) * 1000 + ((p % den) * 1000) \div den

\* (long)(v * 1000) for a float v held in micro-units: millivolts.
MilliOf(v) == TruncDiv(v, 1000)

\* unsigned 32-bit a >= b on two's complement patterns
U32Geq(a, b) == IF (a < 0) = (b < 0) THEN a >= b ELSE a < 0

-----------------------------------------------------------------------------
(* Pure functions of the sketch                                            *)

\* smoothAltVoltage(): running average over the last altReadCount readings.
\* reading is the value analogRead(alternatorVoltagePin) returns.
smoothAltVoltage(readings, index, total, reading) ==
    LET total1 == total - readings[index]
        readings1 == [readings EXCEPT ![index] = reading]
        total2 == total1 + readings1[index]
        index1 == index + 1
        index2 == IF index1 >= altReadCount THEN 0 ELSE index1
    IN  [ readings |-> readings1, index |-> index2, total |-> total2,
          result |-> ScaleMicro(total2, 40000, adcMax * altReadCount) ]

\* Variant: an else-if chain, the first rule that holds decides.
checkThresholdsLevel_FirstMatch(level0, tLed, vAlt, iAlt, iBatt, vBatt) ==
    IF tLed >= systemLedTemperatureHi THEN 1
    ELSE IF vAlt >= alternatorVoltageMax THEN 2
    ELSE IF iAlt >= alternatorCurrentMax THEN 2
    ELSE IF iBatt >= batteryCurrentMax THEN 3
    ELSE IF tLed >= systemLedTemperatureMax THEN 3
    ELSE IF vBatt <= batteryVoltageMin THEN 3
    ELSE level0

\* Variant: the LED-temperature-high rule is applied last instead of first.
checkThresholdsLevel_TempHighLast(level0, tLed, vAlt, iAlt, iBatt, vBatt) ==
    LET e2 == IF vAlt >= alternatorVoltageMax THEN 2 ELSE level0
        e3 == IF iAlt >= alternatorCurrentMax THEN 2 ELSE e2
        e4 == IF iBatt >= batteryCurrentMax THEN 3 ELSE e3
        e5 == IF tLed >= systemLedTemperatureMax THEN 3 ELSE e4
        e6 == IF vBatt <= batteryVoltageMin THEN 3 ELSE e5
        e1 == IF tLed >= systemLedTemperatureHi THEN 1 ELSE e6
    IN  e1

\* Variant: the alternator-current rule compares with > instead of >=.
checkThresholdsLevel_StrictCurrent(level0, tLed, vAlt, iAlt, iBatt, vBatt) ==
    LET e1 == IF tLed >= systemLedTemperatureHi THEN 1 ELSE level0
        e2 == IF vAlt >= alternatorVoltageMax THEN 2 ELSE e1
        e3 == IF iAlt > alternatorCurrentMax THEN 2 ELSE e2
        e4 == IF iBatt >= batteryCurrentMax THEN 3 ELSE e3
        e5 == IF tLed >= systemLedTemperatureMax THEN 3 ELSE e4
        e6 == IF vBatt <= batteryVoltageMin THEN 3 ELSE e5
    IN  e6

\* checkThresholds(): six rules applied in order, each overwriting errorLevel.
checkThresholdsLevel(level0, tLed, vAlt, iAlt, iBatt, vBatt) ==
    LET e1 == IF tLed >= systemLedTemperatureHi THEN 1 ELSE level0
        e2 == IF vAlt >= alternatorVoltageMax THEN 2 ELSE e1
        e3 == IF iAlt >= alternatorCurrentMax THEN 2 ELSE e2
        e4 == IF iBatt >= batteryCurrentMax THEN 3 ELSE e3
        e5 == IF tLed >= systemLedTemperatureMax THEN 3 ELSE e4
        e6 == IF vBatt <= batteryVoltageMin THEN 3 ELSE e5
    IN  e6

\* Results a division by zero may leave in a long (undefined behaviour).
DivZeroOutcomes == {-2147483647, -1, 0, 1, 2147483647}

\* Variant: the two ends of the output range are exchanged.
map_Reversed(x, in_min, in_max, out_min, out_max) ==
    IF in_max = in_min
    THEN DivZeroOutcomes
    ELSE {TruncDiv((x - in_min) * (out_min - out_max), in_max - in_min)
            + out_max}

\* Arduino map(): (x - in_min) * (out_max - out_min) / (in_max - in_min)
\* + out_min in long arithmetic.  The set of values the call may return.
map(x, in_min, in_max, out_min, out_max) ==
    IF in_max = in_min
    THEN DivZeroOutcomes
    ELSE {TruncDiv((x - in_min) * (out_max - out_min), in_max - in_min)
            + out_min}

\* Variant: the lower breakpoint is alternatorVoltageMin instead of Vpcc.
rawLedLevel_MinBreakpoint(vAlt, vBoost) ==
    IF vAlt < alternatorVoltageMin
    THEN {systemLedLevelMin}
    ELSE IF vAlt >= alternatorVoltageMin /\ vAlt <= vBoost
    THEN map(MilliOf(vAlt), MilliOf(alternatorVoltageMin), MilliOf(vBoost),
             systemLedLevelMin, systemLedLevelBbu)
    ELSE map(MilliOf(vAlt), MilliOf(vBoost), MilliOf(alternatorVoltageHi),
             systemLedLevelBbu - bbuBandDrop, systemLedLevelMax)

\* Variant: the top band is mapped up to alternatorVoltageMax instead of
\* alternatorVoltageHi.
rawLedLevel_TopToMax(vAlt, vBoost) ==
    IF vAlt < alternatorVoltageVpcc
    THEN {systemLedLevelMin}
    ELSE IF vAlt >= alternatorVoltageVpcc /\ vAlt <= vBoost
    THEN map(MilliOf(vAlt), MilliOf(alternatorVoltageVpcc), MilliOf(vBoost),
             systemLedLevelMin, systemLedLevelBbu)
    ELSE map(MilliOf(vAlt), MilliOf(vBoost), MilliOf(alternatorVoltageMax),
             systemLedLevelBbu - bbuBandDrop, systemLedLevelMax)

\* Variant: the test for the band below Vpcc is missing.
rawLedLevel_NoLowBand(vAlt, vBoost) ==
    IF vAlt >= alternatorVoltageVpcc /\ vAlt <= vBoost
    THEN map(MilliOf(vAlt), MilliOf(alternatorVoltageVpcc), MilliOf(vBoost),
             systemLedLevelMin, systemLedLevelBbu)
    ELSE map(MilliOf(vAlt), MilliOf(vBoost), MilliOf(alternatorVoltageHi),
             systemLedLevelBbu - bbuBandDrop, systemLedLevelMax)

\* setMainLeds(), normal brightness adjustment: the three voltage bands.
rawLedLevel(vAlt, vBoost) ==
    IF vAlt < alternatorVoltageVpcc
    THEN {systemLedLevelMin}
    ELSE IF vAlt >= alternatorVoltageVpcc /\ vAlt <= vBoost
    THEN map(MilliOf(vAlt), MilliOf(alternatorVoltageVpcc), MilliOf(vBoost),
             systemLedLevelMin, systemLedLevelBbu)
    ELSE map(MilliOf(vAlt), MilliOf(vBoost), MilliOf(alternatorVoltageHi),
             systemLedLevelBbu - bbuBandDrop, systemLedLevelMax)

\* Variant: the result of map() is used as it is.
clampLedLevel_Off(r) == r

\* setMainLeds(), the clamp to the global maximum and minimum.
clampLedLevel(r) ==
    IF r > systemLedLevelMax THEN systemLedLevelMax
    ELSE IF r < systemLedLevelMin THEN systemLedLevelMin
    ELSE r

\* Variant: an overdrive error gets the normal brightness adjustment.
systemLedLevel_NoOverdrive(level, vAlt, vBoost, prev) ==
    IF level = 3 THEN {systemLedLevelMin}
    ELSE IF level <= 2
    THEN {clampLedLevel(r) : r \in rawLedLevel(vAlt, vBoost)}
    ELSE {prev}

\* Variant: an overload error gets the normal brightness adjustment.
systemLedLevel_NoOverload(level, vAlt, vBoost, prev) ==
    IF level = 2 THEN {systemLedLevelMax}
    ELSE {clampLedLevel(r) : r \in rawLedLevel(vAlt, vBoost)}

\* Variant: the over-temperature warning dims the LEDs to the minimum.
systemLedLevel_WarningDims(level, vAlt, vBoost, prev) ==
    IF level = 2 THEN {systemLedLevelMax}
    ELSE IF level = 3 \/ level = 1 THEN {systemLedLevelMin}
    ELSE IF level = 0
    THEN {clampLedLevel(r) : r \in rawLedLevel(vAlt, vBoost)}
    ELSE {prev}

\* setMainLeds(), first half: the values systemLedLevelOut may take.
systemLedLevel(level, vAlt, vBoost, prev) ==
    IF level = 2 THEN {systemLedLevelMax}
    ELSE IF level = 3 THEN {systemLedLevelMin}
    ELSE IF level <= 1
    THEN {clampLedLevel(r) : r \in rawLedLevel(vAlt, vBoost)}
    ELSE {prev}

\* Variant: LED1 is not capped at the DAC range.
led1LevelOf_NoCap(out) == out

\* setMainLeds(), second half: the split into the two LED channels.
led1LevelOf(out) == IF out >= dacRange THEN dacRange ELSE out

\* Variant: below the dead zone LED2 is set to 1, as in the earlier sketch.
led2LevelOf_One(out) ==
    IF out <= led2Offset + ledDeadZoneLow THEN 1
    ELSE out - led2Offset

led2LevelOf(out) ==
    IF out <= led2Offset + ledDeadZoneLow THEN ledDeadZoneLow
    ELSE out - led2Offset

\* Variant: six independent if statements, the last band that holds wins.
alternatorStatusOf_Overwrite(prev, vAlt, vBoost) ==
    LET s0 == IF vAlt <= alternatorVoltageMin THEN 0 ELSE prev
        s1 == IF vAlt > alternatorVoltageMin /\ vAlt <= alternatorVoltageVpcc
              THEN 1 ELSE s0
        s2 == IF vAlt > alternatorVoltageVpcc /\ vAlt <= vBoost
              THEN 2 ELSE s1
        s3 == IF vAlt > vBoost /\ vAlt <= alternatorVoltageHi THEN 3 ELSE s2
        s4 == IF vAlt > alternatorVoltageHi /\ vAlt <= alternatorVoltageMax
              THEN 4 ELSE s3
        s5 == IF vAlt > alternatorVoltageMax THEN 5 ELSE s4
    IN  s5

\* checkPowerStatus(): the three status decoders.
alternatorStatusOf(prev, vAlt, vBoost) ==
    IF vAlt <= alternatorVoltageMin THEN 0
    ELSE IF vAlt > alternatorVoltageMin /\ vAlt <= alternatorVoltageVpcc THEN 1
    ELSE IF vAlt > alternatorVoltageVpcc /\ vAlt <= vBoost THEN 2
    ELSE IF vAlt > vBoost /\ vAlt <= alternatorVoltageHi THEN 3
    ELSE IF vAlt > alternatorVoltageHi /\ vAlt <= alternatorVoltageMax THEN 4
    ELSE IF vAlt > alternatorVoltageMax THEN 5
    ELSE prev

\* Variant: the lowest battery band compares with < instead of <=.
batteryStatusOf_StrictMin(prev, vBatt) ==
    IF vBatt < batteryVoltageMin THEN 0
    ELSE IF vBatt >= batteryVoltageMin /\ vBatt <= batteryVoltageLow THEN 1
    ELSE IF vBatt > batteryVoltageLow /\ vBatt <= batteryVoltageMid THEN 2
    ELSE IF vBatt > batteryVoltageMid /\ vBatt <= batteryVoltageMax THEN 3
    ELSE IF vBatt > batteryVoltageMax THEN 4
    ELSE prev

batteryStatusOf(prev, vBatt) ==
    IF vBatt <= batteryVoltageMin THEN 0
    ELSE IF vBatt > batteryVoltageMin /\ vBatt <= batteryVoltageLow THEN 1
    ELSE IF vBatt > batteryVoltageLow /\ vBatt <= batteryVoltageMid THEN 2
    ELSE IF vBatt > batteryVoltageMid /\ vBatt <= batteryVoltageMax THEN 3
    ELSE IF vBatt > batteryVoltageMax THEN 4
    ELSE prev

chargeStatusOf(prev, power, charge, done) ==
    IF power = HIGH /\ charge = HIGH /\ done = HIGH THEN 0
    ELSE IF power = LOW /\ charge = HIGH /\ done = HIGH THEN 1
    ELSE IF power = HIGH /\ charge = LOW /\ done = HIGH THEN 2
    ELSE IF power = LOW /\ charge = LOW /\ done = HIGH THEN 3
    ELSE IF power = LOW /\ charge = HIGH /\ done = LOW THEN 4
    ELSE IF power = LOW /\ charge = LOW /\ done = LOW THEN 5
    ELSE prev

\* Variant: the alarm is released as soon as errorLevel is 0.
alarmLatch_NoHold(al, level, t) ==
    IF al.state
    THEN IF level = 0 THEN [state |-> LOW, time |-> al.time] ELSE al
    ELSE IF level > 0 THEN [state |-> HIGH, time |-> t] ELSE al

\* Variant: the alarm is released when the duration is over, fault or not.
alarmLatch_TimeoutOnly(al, level, t) ==
    IF al.state
    THEN IF U32Geq(t, al.time + alarmAudibleDuration)
         THEN [state |-> LOW, time |-> al.time] ELSE al
    ELSE IF level > 0 THEN [state |-> HIGH, time |-> t] ELSE al

\* Variant: every cycle with a fault stamps alarmAudibleTime again.
alarmLatch_Restamp(al, level, t) ==
    IF al.state
    THEN IF U32Geq(t, al.time + alarmAudibleDuration) /\ level = 0
         THEN [state |-> LOW, time |-> al.time]
         ELSE IF level > 0 THEN [state |-> HIGH, time |-> t] ELSE al
    ELSE IF level > 0 THEN [state |-> HIGH, time |-> t] ELSE al

\* Variant: once HIGH the alarm is never released.
alarmLatch_NeverOff(al, level, t) ==
    IF al.state THEN al
    ELSE IF level > 0 THEN [state |-> HIGH, time |-> t] ELSE al

\* checkAudibleAlarm(), the latch: al is the pair [state, time] of
\* alarmState and alarmAudibleTime, t is millis().
alarmLatch(al, level, t) ==
    IF al.state
    THEN IF U32Geq(t, al.time + alarmAudibleDuration) /\ level = 0
         THEN [state |-> LOW, time |-> al.time] ELSE al
    ELSE IF level > 0 THEN [state |-> HIGH, time |-> t] ELSE al

\* Variant: the flip does not record its time.
blinkIndicatorLed_NoStamp(b, t) ==
    IF b.state
    THEN IF U32Geq(t, b.time + indicatorBlinkInterval)
         THEN [state |-> LOW, time |-> b.time] ELSE b
    ELSE IF U32Geq(t, b.time + indicatorBlinkInterval)
         THEN [state |-> HIGH, time |-> b.time] ELSE b

\* blinkIndicatorLed(): flip the shared phase when the interval has elapsed.
\* b is the pair [state, time]; t is millis().
blinkIndicatorLed(b, t) ==
    IF b.state
    THEN IF U32Geq(t, b.time + indicatorBlinkInterval)
         THEN [state |-> LOW, time |-> t] ELSE b
    ELSE IF U32Geq(t, b.time + indicatorBlinkInterval)
         THEN [state |-> HIGH, time |-> t] ELSE b

\* setIndicatorLed(): the three switch statements in order.  Each
\* blinkIndicatorLed() call reads millis() itself: t1, t2 and t3 are what
\* the calls of the alternator, the battery and the charger lamp read.
\* Returns the blink pair after the call, the three pixel colours, and the
\* number of blinkIndicatorLed() calls that flipped the phase.
setIndicatorLedAt(b0, t1, t2, t3, aStat, bStat, cStat, px) ==
    LET b1 == IF aStat = 5 THEN blinkIndicatorLed(b0, t1) ELSE b0
        p2 == CASE aStat = 0 -> indRed
                [] aStat = 1 -> indYel
                [] aStat = 2 -> indGreen
                [] aStat = 3 -> indBlue
                [] aStat = 4 -> indWhite
                [] aStat = 5 -> IF b1.state = HIGH THEN indRed ELSE indOff
                [] OTHER -> px[2]
        b2 == IF bStat = 0 THEN blinkIndicatorLed(b1, t2) ELSE b1
        p1 == CASE bStat = 0 -> IF b2.state = HIGH THEN indRed ELSE indOff
                [] bStat = 1 -> indYel
                [] bStat = 2 -> indGreen
                [] bStat = 3 -> indBlue
                [] bStat = 4 -> indWhite
                [] OTHER -> px[1]
        b3 == IF cStat \in {2, 5} THEN blinkIndicatorLed(b2, t3) ELSE b2
        p0 == CASE cStat = 0 -> indRed
                [] cStat = 1 -> indYel
                [] cStat = 2 -> IF b3.state = HIGH THEN indRed ELSE indOff
                [] cStat = 3 -> indGreen
                [] cStat = 4 -> indWhite
                [] cStat = 5 -> IF b3.state = HIGH THEN indRed ELSE indOff
                [] OTHER -> px[0]
    IN  [ blink |-> b3,
          pixels |-> [i \in 0..2 |->
                        IF i = 0 THEN p0 ELSE IF i = 1 THEN p1 ELSE p2],
          flips |-> (IF b1.state # b0.state THEN 1 ELSE 0)
                    + (IF b2.state # b1.state THEN 1 ELSE 0)
                    + (IF b3.state # b2.state THEN 1 ELSE 0) ]

\* setIndicatorLed() when the clock does not advance during the call.
setIndicatorLed(b0, t, aStat, bStat, cStat, px) ==
    setIndicatorLedAt(b0, t, t, t, aStat, bStat, cStat, px)

\* Variant: the indicator is updated in every cycle.
displayDue_Always(t, last) == TRUE

\* loop(): the gate of the indicator update, t is millis() and last is
\* displayUpdateTime.
displayDue(t, last) == U32Geq(t, last + displayUpdateInterval)

-----------------------------------------------------------------------------
(* Bounds of the model and the sensor values the environment supplies      *)

MaxTime == 1500         \* the clock is followed up to this many ms
TickMs == 500           \* granularity at which the clock is observed
AltSumStride == 331     \* spacing of the sampled window totals
BoostStride == 93       \* spacing of the sampled boost-voltage counts
FineTickMs == 125       \* clock granularity of the display specification
MaxClockTime == 750     \* the finer clock is followed up to this many ms

\* Sensor snapshots the environment supplies in the control loop:
\* <<alternator-current count, battery voltage, battery current,
\*   LED-temperature count, boost-voltage count, charger lines>>.
\* One nominal snapshot, one per threshold rule, and one in which an
\* overdrive rule and an overload rule hold together.
AltCounts == {adcMax}
NominalBoost == 700
ChargerIdle == <<HIGH, HIGH, HIGH>>
ChargerFault == <<LOW, LOW, LOW>>
SensorSnapshots ==
    { <<0, batteryVoltageMid, 0, 0, NominalBoost, ChargerIdle>>,
      <<0, batteryVoltageMid, 0, systemLedTemperatureHi, NominalBoost,
        ChargerIdle>>,
      <<0, batteryVoltageMid, 0, systemLedTemperatureMax, NominalBoost,
        ChargerIdle>>,
      <<adcMax, batteryVoltageMid, 0, 0, NominalBoost, ChargerIdle>>,
      <<0, batteryVoltageMid, batteryCurrentMax, 0, NominalBoost,
        ChargerIdle>>,
      <<0, batteryVoltageMin, 0, 0, NominalBoost, ChargerFault>>,
      <<adcMax, batteryVoltageMid, batteryCurrentMax, 0, NominalBoost,
        ChargerIdle>> }

-----------------------------------------------------------------------------
(* Initial state: the globals' initialisers and setup()                    *)

\* The final sketch has none of the variants' globals and, outside the
\* scripted specification, reads no script.
PartsUnused ==
    /\ led2OffsetP1 = 0
    /\ systemLedRange = 0
    /\ I_BATT = 0
    /\ LED_BRT = 0
    /\ LED1_PWM = 0
    /\ LED2_PWM = 0

VariantsUnused ==
    /\ script = << >>
    /\ PartsUnused

\* vAlt0 is the float 0.0 in the representation the specification uses,
\* counts the sequence of counts the alternator-voltage pin will deliver
\* where the specification scripts it.
InitState(vAlt0, counts) ==
    /\ pc = "loop"
    /\ now = 0
    /\ altReadings = [i \in 0..(altReadCount - 1) |-> 0]
    /\ altReadIndex = 0
    /\ altReadTotal = 0
    /\ alternatorVoltageIn = vAlt0
    /\ alternatorCurrentIn = 0
    /\ batteryVoltageIn = 0
    /\ batteryCurrentIn = 0
    /\ systemLedTemperatureIn = 0
    /\ boostVoltageIn = 0
    /\ chargeCharge = LOW
    /\ chargeDone = LOW
    /\ chargePower = LOW
    /\ errorLevel = 0
    /\ alternatorStatus = 0
    /\ batteryStatus = 0
    /\ chargeStatus = 0
    /\ systemLedLevelOut = systemLedLevelMin
    /\ led1Level = 0
    /\ led2Level = 0
    /\ alarmState = LOW
    /\ alarmAudibleTime = 0
    /\ displayUpdateTime = 0
    /\ indicatorBlinkTime = 0
    /\ indicatorBlinkState = LOW
    /\ alarmPin = LOW
    /\ dac1 = 4095
    /\ dac2 = 4095
    /\ pixels = [i \in 0..2 |-> indOff]
    /\ script = counts
    /\ PartsUnused

Init == InitState(0, << >>)

-----------------------------------------------------------------------------
(* Actions: the clock, and the calls loop() makes in order                 *)

\* millis() advances by d ms; the clock is followed up to limit.
TickTo(d, limit) ==
    /\ now + d <= limit
    /\ now' = now + d
    /\ UNCHANGED << pc, sensorVars, errorLevel, statusVars, ledVars,
                    alarmVars, indicatorVars >>
    /\ UNCHANGED variantVars

Tick(d) == TickTo(d, MaxTime)

\* loop(), first four statements: the per-cycle reset.
\* Variant: loop() does not reset errorLevel.
loopBegin_KeepError ==
    /\ pc = "loop"
    /\ errorLevel' = errorLevel
    /\ alternatorStatus' = 0
    /\ batteryStatus' = 0
    /\ chargeStatus' = 0
    /\ pc' = "readSensors"
    /\ UNCHANGED << now, sensorVars, ledVars, alarmVars, indicatorVars >>
    /\ UNCHANGED variantVars

\* Variant: loop() does not reset the three statuses.
loopBegin_KeepStatus ==
    /\ pc = "loop"
    /\ errorLevel' = 0
    /\ pc' = "readSensors"
    /\ UNCHANGED << now, sensorVars, statusVars, ledVars, alarmVars,
                    indicatorVars >>
    /\ UNCHANGED variantVars

loopBegin ==
    /\ pc = "loop"
    /\ errorLevel' = 0
    /\ alternatorStatus' = 0
    /\ batteryStatus' = 0
    /\ chargeStatus' = 0
    /\ pc' = "readSensors"
    /\ UNCHANGED << now, sensorVars, ledVars, alarmVars, indicatorVars >>
    /\ UNCHANGED variantVars

\* readSensors(): vAltAdc, iAltAdc, tLedAdc, vBoostAdc are analogRead()
\* results, vBatt and iBatt what the INA219 driver returns, lines the three
\* charger status pins <<power, charge, done>>.
readSensors(vAltAdc, iAltAdc, vBatt, iBatt, tLedAdc, vBoostAdc, lines) ==
    /\ pc = "readSensors"
    /\ LET sm == smoothAltVoltage(altReadings, altReadIndex, altReadTotal,
                                  vAltAdc)
       IN  /\ altReadings' = sm.readings
           /\ altReadIndex' = sm.index
           /\ altReadTotal' = sm.total
           /\ alternatorVoltageIn' = sm.result
    /\ alternatorCurrentIn' = ScaleMicro(iAltAdc, 2500, adcMax)
    /\ batteryVoltageIn' = vBatt
    /\ batteryCurrentIn' = iBatt
    /\ systemLedTemperatureIn' = tLedAdc
    /\ boostVoltageIn' = ScaleMicro(vBoostAdc, 19300, adcMax)
    /\ chargePower' = lines[1]
    /\ chargeCharge' = lines[2]
    /\ chargeDone' = lines[3]
    /\ pc' = "checkThresholds"
    /\ UNCHANGED << now, errorLevel, statusVars, ledVars, alarmVars,
                    indicatorVars >>
    /\ UNCHANGED variantVars

checkThresholds ==
    /\ pc = "checkThresholds"
    /\ errorLevel' = checkThresholdsLevel(errorLevel, systemLedTemperatureIn,
                         alternatorVoltageIn, alternatorCurrentIn,
                         batteryCurrentIn, batteryVoltageIn)
    /\ pc' = "checkAudibleAlarm"
    /\ UNCHANGED << now, sensorVars, statusVars, ledVars, alarmVars,
                    indicatorVars >>
    /\ UNCHANGED variantVars

checkAudibleAlarm ==
    /\ pc = "checkAudibleAlarm"
    /\ LET al == alarmLatch([state |-> alarmState, time |-> alarmAudibleTime],
                            errorLevel, now)
       IN  /\ alarmState' = al.state
           /\ alarmAudibleTime' = al.time
           /\ alarmPin' = al.state
    /\ pc' = "setMainLeds"
    /\ UNCHANGED << now, sensorVars, errorLevel, statusVars, ledVars,
                    indicatorVars >>
    /\ UNCHANGED variantVars

setMainLeds ==
    /\ pc = "setMainLeds"
    /\ \E out \in systemLedLevel(errorLevel, alternatorVoltageIn,
                                 boostVoltageIn, systemLedLevelOut) :
          /\ systemLedLevelOut' = out
          /\ led1Level' = led1LevelOf(out)
          /\ led2Level' = led2LevelOf(out)
          /\ dac1' = dacRange - led1LevelOf(out)
          /\ dac2' = dacRange - led2LevelOf(out)
    /\ pc' = "display"
    /\ UNCHANGED << now, sensorVars, errorLevel, statusVars, alarmVars,
                    indicatorVars >>
    /\ UNCHANGED variantVars

\* loop(), the time-gated tail: checkPowerStatus() and setIndicatorLed().
\* The clock advances by d1 ms between the blinkIndicatorLed() calls of the
\* alternator and the battery lamp and by d2 ms between those of the
\* battery and the charger lamp.
loopDisplayAt(d1, d2) ==
    /\ pc = "display"
    /\ IF displayDue(now, displayUpdateTime)
       THEN LET aStat == alternatorStatusOf(alternatorStatus,
                             alternatorVoltageIn, boostVoltageIn)
                bStat == batteryStatusOf(batteryStatus, batteryVoltageIn)
                cStat == chargeStatusOf(chargeStatus, chargePower,
                                        chargeCharge, chargeDone)
                ind == setIndicatorLedAt(
                           [state |-> indicatorBlinkState,
                            time |-> indicatorBlinkTime],
                           now, now + d1, now + d1 + d2,
                           aStat, bStat, cStat, pixels)
            IN  /\ displayUpdateTime' = now
                /\ alternatorStatus' = aStat
                /\ batteryStatus' = bStat
                /\ chargeStatus' = cStat
                /\ indicatorBlinkState' = ind.blink.state
                /\ indicatorBlinkTime' = ind.blink.time
                /\ pixels' = ind.pixels
                /\ now' = now + d1 + d2
       ELSE UNCHANGED << now, statusVars, indicatorVars >>
    /\ pc' = "loop"
    /\ UNCHANGED << sensorVars, errorLevel, ledVars, alarmVars >>
    /\ UNCHANGED variantVars

\* The same stage on a clock that does not advance during the call.
loopDisplay == loopDisplayAt(0, 0)

Next ==
    \/ Tick(TickMs)
    \/ loopBegin
    \/ \E vAltAdc \in AltCounts, s \in SensorSnapshots :
          readSensors(vAltAdc, s[1], s[2], s[3], s[4], s[5], s[6])
    \/ checkThresholds
    \/ checkAudibleAlarm
    \/ setMainLeds
    \/ loopDisplay

Spec == Init /\ [][Next]_vars

\* The same loop on a finer clock, one tick being half the display and
\* blink interval, with a nominal snapshot and one in which the battery
\* and the charger lamps blink.
ClockSnapshots ==
    { <<0, batteryVoltageMid, 0, 0, NominalBoost, ChargerIdle>>,
      <<0, batteryVoltageMin, 0, 0, NominalBoost, ChargerFault>> }

NextClock ==
    \/ TickTo(FineTickMs, MaxClockTime)
    \/ loopBegin
    \/ \E vAltAdc \in AltCounts, s \in ClockSnapshots :
          readSensors(vAltAdc, s[1], s[2], s[3], s[4], s[5], s[6])
    \/ checkThresholds
    \/ checkAudibleAlarm
    \/ setMainLeds
    \/ loopDisplay

SpecClock == Init /\ [][NextClock]_vars

\* The same loop with every combination of the three charger lines, and
\* with a battery voltage in each of the five battery bands, up to the
\* second indicator update.
StatusMaxTime == 500

BatteryBandSamples ==
    { batteryVoltageMin, batteryVoltageLow, batteryVoltageMid,
      batteryVoltageMax, batteryVoltageMax + 10000 }

StatusSnapshots ==
    { <<0, batteryVoltageMax + 10000, 0, 0, NominalBoost,
        <<power, charge, done>>>> :
         power \in BOOLEAN, charge \in BOOLEAN, done \in BOOLEAN }
    \cup { <<0, vBatt, 0, 0, NominalBoost, ChargerIdle>> :
             vBatt \in BatteryBandSamples }

NextStatus ==
    \/ TickTo(displayUpdateInterval, StatusMaxTime)
    \/ loopBegin
    \/ \E vAltAdc \in AltCounts, s \in StatusSnapshots :
          readSensors(vAltAdc, s[1], s[2], s[3], s[4], s[5], s[6])
    \/ checkThresholds
    \/ checkAudibleAlarm
    \/ setMainLeds
    \/ loopDisplay

SpecStatus == Init /\ [][NextStatus]_vars

\* The same loop with millis() read anew by every blinkIndicatorLed() call:
\* the clock may advance by up to MaxCallDrift ms between two calls of one
\* setIndicatorLed(), and is observed one ms before and at each multiple of
\* the display interval later.
MaxCallDrift == 1
MaxBlinkTime == 502

CallDrifts == 0..MaxCallDrift

BlinkTicks == { displayUpdateInterval - 1, displayUpdateInterval }

NextBlink ==
    \/ \E d \in BlinkTicks : TickTo(d, MaxBlinkTime)
    \/ loopBegin
    \/ \E vAltAdc \in AltCounts, s \in ClockSnapshots :
          readSensors(vAltAdc, s[1], s[2], s[3], s[4], s[5], s[6])
    \/ checkThresholds
    \/ checkAudibleAlarm
    \/ setMainLeds
    \/ \E d1 \in CallDrifts, d2 \in CallDrifts : loopDisplayAt(d1, d2)

SpecBlink == Init /\ [][NextBlink]_vars

\* The same loop around the wrap of millis(): 49.7 days after setup() the
\* 32-bit counter is WrapLead ms before 2^32 (a negative pattern), the
\* alternator has been at rest, and the last cycle, with the nominal
\* readings, has just updated the indicator.
WrapLead == 500
WrapMaxTime == 250

InitWrap ==
    /\ pc = "loop"
    /\ now = -WrapLead
    /\ altReadings = [i \in 0..(altReadCount - 1) |-> 0]
    /\ altReadIndex = 0
    /\ altReadTotal = 0
    /\ alternatorVoltageIn = 0
    /\ alternatorCurrentIn = 0
    /\ batteryVoltageIn = batteryVoltageMid
    /\ batteryCurrentIn = 0
    /\ systemLedTemperatureIn = 0
    /\ boostVoltageIn = ScaleMicro(NominalBoost, 19300, adcMax)
    /\ chargePower = ChargerIdle[1]
    /\ chargeCharge = ChargerIdle[2]
    /\ chargeDone = ChargerIdle[3]
    /\ errorLevel = 0
    /\ alternatorStatus = alternatorStatusOf(0, 0, boostVoltageIn)
    /\ batteryStatus = batteryStatusOf(0, batteryVoltageMid)
    /\ chargeStatus = chargeStatusOf(0, chargePower, chargeCharge, chargeDone)
    /\ systemLedLevelOut = systemLedLevelMin
    /\ led1Level = led1LevelOf(systemLedLevelMin)
    /\ led2Level = led2LevelOf(systemLedLevelMin)
    /\ alarmState = LOW
    /\ alarmAudibleTime = 0
    /\ displayUpdateTime = -WrapLead
    /\ indicatorBlinkTime = 0
    /\ indicatorBlinkState = LOW
    /\ alarmPin = LOW
    /\ dac1 = dacRange - led1LevelOf(systemLedLevelMin)
    /\ dac2 = dacRange - led2LevelOf(systemLedLevelMin)
    /\ pixels = setIndicatorLed([state |-> LOW, time |-> 0], -WrapLead,
                                alternatorStatus, batteryStatus,
                                chargeStatus,
                                [i \in 0..2 |-> indOff]).pixels
    /\ VariantsUnused

NextWrap ==
    \/ TickTo(FineTickMs, WrapMaxTime)
    \/ loopBegin
    \/ \E vAltAdc \in AltCounts, s \in ClockSnapshots :
          readSensors(vAltAdc, s[1], s[2], s[3], s[4], s[5], s[6])
    \/ checkThresholds
    \/ checkAudibleAlarm
    \/ setMainLeds
    \/ loopDisplay

SpecWrap == InitWrap /\ [][NextWrap]_vars

\* The loop with the alternator at rest and a battery fault that comes and
\* goes, under the scheduling the sketch has: loop() is called again and
\* again, and millis() advances as long as the model follows the clock.
LiveSnapshots ==
    { <<0, batteryVoltageMid, 0, 0, NominalBoost, ChargerIdle>>,
      <<0, batteryVoltageMin, 0, 0, NominalBoost, ChargerFault>> }

CycleStep ==
    \/ loopBegin
    \/ \E s \in LiveSnapshots :
          readSensors(0, s[1], s[2], s[3], s[4], s[5], s[6])
    \/ checkThresholds
    \/ checkAudibleAlarm
    \/ setMainLeds
    \/ loopDisplay

NextLive ==
    \/ Tick(TickMs)
    \/ CycleStep

SpecLive ==
    /\ Init
    /\ [][NextLive]_vars
    /\ WF_vars(Tick(TickMs))
    /\ WF_vars(CycleStep)

-----------------------------------------------------------------------------
(* One pass of the pipeline from a sampled sensor snapshot                 *)
(*                                                                         *)
(* SpecFn starts where loop() has reset the per-cycle globals and          *)
(* readSensors() has returned, with the snapshot drawn from grids over the *)
(* whole range of each channel, and runs the rest of that cycle.           *)

MaxAltSum == adcMax * altReadCount

AltVoltageOfSum(sum) == ScaleMicro(sum, 40000, MaxAltSum)

\* Variant: the boost divider is scaled to 30 V at full count.
BoostVoltageOfCount_Scale30(count) == ScaleMicro(count, 30000, adcMax)

\* readSensors(): the boost voltage of an ADC count.
BoostVoltageOfCount(count) == ScaleMicro(count, 19300, adcMax)

\* Boost counts: a regular grid, the end of the range, the counts next to
\* alternatorVoltageVpcc, and the counts whose voltage a window total can
\* equal exactly (400 * total = 2123 * count).
BoostGrid ==
    { b \in 0..adcMax :
         \/ b % BoostStride = 0
         \/ b = adcMax
         \/ b % 400 = 0
         \/ Abs(BoostVoltageOfCount(b) - alternatorVoltageVpcc) < 19000 }

\* Window totals: a regular grid, the end of the range, and the totals next
\* to each threshold and next to each sampled boost voltage.
AltSumGrid ==
    { t \in 0..MaxAltSum :
         \/ t % AltSumStride = 0
         \/ t = MaxAltSum
         \/ \E v \in {alternatorVoltageMin, alternatorVoltageVpcc,
                      alternatorVoltageHi, alternatorVoltageMax} :
               Abs(AltVoltageOfSum(t) - v) < 4000
         \/ \E b \in BoostGrid :
               Abs(AltVoltageOfSum(t) - BoostVoltageOfCount(b)) < 4000 }

TemperatureGrid == {systemLedTemperatureHi - 1, systemLedTemperatureHi,
                    systemLedTemperatureMax}
AltCurrentGrid == {adcMax - 1, adcMax}
BatteryVoltageGrid == {batteryVoltageMin, batteryVoltageMin + 4000}
BatteryCurrentGrid == {batteryCurrentMax - 1, batteryCurrentMax}
ChargeLineGrid == {ChargerFault}

\* A window of altReadCount readings whose total is sum.
WindowOfSum(sum) ==
    [i \in 0..(altReadCount - 1) |->
        (sum \div altReadCount) + (IF i < sum % altReadCount THEN 1 ELSE 0)]

\* The window totals sums, each with the voltage smoothAltVoltage() returns.
AltSnapshots(sums) == { << t, AltVoltageOfSum(t) >> : t \in sums }

\* The state in which readSensors() has just returned: the window total and
\* the smoothed voltage are one of the pairs alts, the other readings
\* are drawn from the given sets, the clock from times, the alarm state
\* from alarms.
SnapshotInit(alts, boosts, tLeds, iAlts, vBatts, iBatts, lines, times, alarms) ==
    /\ pc = "checkThresholds"
    /\ now \in times
    /\ \E a \in alts :
          /\ altReadings = WindowOfSum(a[1])
          /\ altReadTotal = a[1]
          /\ alternatorVoltageIn = a[2]
    /\ altReadIndex = 0
    /\ alternatorCurrentIn \in {ScaleMicro(c, 2500, adcMax) :
                                  c \in iAlts}
    /\ batteryVoltageIn \in vBatts
    /\ batteryCurrentIn \in iBatts
    /\ systemLedTemperatureIn \in tLeds
    /\ boostVoltageIn \in {BoostVoltageOfCount(b) : b \in boosts}
    /\ \E l \in lines :
          /\ chargePower = l[1]
          /\ chargeCharge = l[2]
          /\ chargeDone = l[3]
    /\ errorLevel = 0
    /\ alternatorStatus = 0
    /\ batteryStatus = 0
    /\ chargeStatus = 0
    /\ systemLedLevelOut = systemLedLevelMin
    /\ led1Level = led1LevelOf(systemLedLevelMin)
    /\ led2Level = led2LevelOf(systemLedLevelMin)
    /\ alarmState \in alarms
    /\ alarmAudibleTime = 0
    /\ displayUpdateTime = 0
    /\ indicatorBlinkTime = 0
    /\ indicatorBlinkState = LOW
    /\ alarmPin = alarmState
    /\ dac1 = dacRange - led1LevelOf(systemLedLevelMin)
    /\ dac2 = dacRange - led2LevelOf(systemLedLevelMin)
    /\ pixels = [i \in 0..2 |-> indOff]
    /\ VariantsUnused

InitFn ==
    SnapshotInit(AltSnapshots(AltSumGrid), BoostGrid, TemperatureGrid, AltCurrentGrid,
                 BatteryVoltageGrid, BatteryCurrentGrid, ChargeLineGrid,
                 {0, MaxTime}, {LOW, HIGH})

NextFn ==
    \/ checkThresholds
    \/ checkAudibleAlarm
    \/ setMainLeds
    \/ loopDisplay

SpecFn == InitFn /\ [][NextFn]_vars

\* One pass of the same stages for every boost-voltage count the ADC can
\* return, with window totals around alternatorVoltageVpcc and across the
\* range, and no fault on the other channels.
MapSumStride == 1324

MapAltSums ==
    { t \in AltSumGrid :
         \/ t % MapSumStride = 0
         \/ Abs(AltVoltageOfSum(t) - alternatorVoltageVpcc) < 19000 }

InitMap ==
    SnapshotInit(AltSnapshots(MapAltSums), 0..adcMax, {0}, {0}, {batteryVoltageMid}, {0},
                 {ChargerIdle}, {MaxTime}, {LOW})

SpecMap == InitMap /\ [][NextFn]_vars

-----------------------------------------------------------------------------
(* The smoothing window in the sketch's own arithmetic                     *)
(*                                                                         *)
(* On the ATmega328 float and double are both IEEE-754 binary32: 24        *)
(* significant bits, every operation rounded to the nearest value, ties to *)
(* the even significand.  In this section a float is held as an integer    *)
(* number of F32 units of 2^-20 V.  A binary32 value of 8 V or more is a   *)
(* whole number of units, and sums and differences of whole numbers of     *)
(* units are whole numbers of units, so the window entries and the running *)
(* total are held exactly for the counts 0 and MinF32Count..adcMax.  The   *)
(* quotient smoothAltVoltage() returns can be finer than one unit and is   *)
(* held as the fraction num/den of a unit, den a power of two.             *)

\* 40.0/1023.0 rounded to binary32 is (F32ScaleHi * 256 + F32ScaleLo) * 2^-28.
F32ScaleHi == 41000
F32ScaleLo == 10

\* The least magnitude, in units, whose binary32 spacing is one unit (8 V).
F32Exact == 8388608

\* The least non-zero count whose scaled reading is 8 V or more.
MinF32Count == 205

\* The spacing of binary32 values, in units, at magnitude a >= F32Exact.
RECURSIVE F32Ulp(_)
F32Ulp(a) == IF a < 2 * F32Exact THEN 1 ELSE 2 * F32Ulp(a \div 2)

\* The binary32 value nearest to whole + r/d units (0 <= r < d), for
\* whole >= F32Exact, or r = 0 and any whole >= 0.
F32Nearest(whole, r, d) ==
    LET u == F32Ulp(whole)
        k == whole \div u
        rest2 == 2 * ((whole % u) * d + r)
        up == rest2 > u * d \/ (rest2 = u * d /\ k % 2 = 1)
    IN  IF up THEN (k + 1) * u ELSE k * u

\* Float addition and subtraction of whole numbers of units.
F32Add(a, b) ==
    LET s == a + b
    IN  IF s < 0 THEN -F32Nearest(-s, 0, 1) ELSE F32Nearest(s, 0, 1)

F32Sub(a, b) == F32Add(a, -b)

\* analogRead(alternatorVoltagePin)*(40.0/1023.0): the product of the count
\* and the binary32 constant, rounded.
F32Reading(count) ==
    F32Nearest(count * F32ScaleHi + (count * F32ScaleLo) \div 256,
               (count * F32ScaleLo) % 256, 256)

\* The power of two den >= den0 at which p * den / n has 24 significant bits.
RECURSIVE F32Den(_, _, _)
F32Den(p, n, den0) ==
    IF p * den0 >= n * F32Exact THEN den0 ELSE F32Den(p, n, 2 * den0)

\* The fraction num/den in lowest terms.
RECURSIVE Dyadic(_, _)
Dyadic(num, den) ==
    IF den > 1 /\ num % 2 = 0 THEN Dyadic(num \div 2, den \div 2)
    ELSE [num |-> num, den |-> den]

\* Float division of a whole number of units by the integer n > 0.
F32Quotient(total, n) ==
    LET p == Abs(total)
        den == F32Den(p, n, 1)
        q == (p * den) \div n
        rest2 == 2 * ((p * den) % n)
        m == IF rest2 > n \/ (rest2 = n /\ q % 2 = 1) THEN q + 1 ELSE q
        mag == IF p = 0 THEN Dyadic(0, 1)
               ELSE IF den = 1 THEN Dyadic(F32Nearest(p \div n, p % n, n), 1)
               ELSE Dyadic(m, den)
    IN  IF total < 0 THEN [mag EXCEPT !.num = -mag.num] ELSE mag

\* smoothAltVoltage() in float arithmetic: readings and total are in units,
\* count is the value analogRead(alternatorVoltagePin) returns.
smoothAltVoltageF32(readings, index, total, count) ==
    LET total1 == F32Sub(total, readings[index])
        readings1 == [readings EXCEPT ![index] = F32Reading(count)]
        total2 == F32Add(total1, readings1[index])
        index1 == index + 1
        index2 == IF index1 >= altReadCount THEN 0 ELSE index1
    IN  [ readings |-> readings1, index |-> index2, total |-> total2,
          result |-> F32Quotient(total2, altReadCount) ]

\* alternatorVoltageIn = smoothAltVoltage(), the pin delivering count.
smoothAltVoltageCall(count) ==
    /\ LET sm == smoothAltVoltageF32(altReadings, altReadIndex, altReadTotal,
                                     count)
       IN  /\ altReadings' = sm.readings
           /\ altReadIndex' = sm.index
           /\ altReadTotal' = sm.total
           /\ alternatorVoltageIn' = sm.result
    /\ UNCHANGED << pc, now, alternatorCurrentIn, batteryVoltageIn,
                    batteryCurrentIn, systemLedTemperatureIn, boostVoltageIn,
                    chargeCharge, chargeDone, chargePower, errorLevel,
                    statusVars, ledVars, alarmVars, indicatorVars,
                    variantVars >>

\* The exact sum of the first n entries of a window.
RECURSIVE WindowSum(_, _)
WindowSum(readings, n) ==
    IF n = 0 THEN 0 ELSE readings[n - 1] + WindowSum(readings, n - 1)

\* The counts the pin delivers: the alternator at rest and at about 27 V.
F32Counts == {0, 700}

InitFloat == InitState(Dyadic(0, 1), << >>)

NextFloat == \E count \in F32Counts : smoothAltVoltageCall(count)

SpecFloat == InitFloat /\ [][NextFloat]_vars

-----------------------------------------------------------------------------
(* The alternator voltage exactly at alternatorVoltageMax                  *)
(*                                                                         *)
(* SpecEdge has two parts.  The scripted part runs smoothAltVoltage() in   *)
(* float arithmetic over EdgeScript from the state after setup() and ends  *)
(* with the value returned equal to the float alternatorVoltageMax.  The   *)
(* other part runs the rest of a cycle from snapshots whose smoothed       *)
(* voltage is that threshold or one of its two neighbours; the stages      *)
(* after readSensors() only compare the voltage, so the float equal to the *)
(* threshold is held as alternatorVoltageMax and its neighbours as         *)
(* alternatorVoltageMax - 1 and alternatorVoltageMax + 1.                  *)

\* float alternatorVoltageMax = 33.9: 33.9 V is 35546726.4 units.
alternatorVoltageMaxF32 == F32Nearest(35546726, 4, 10)

\* The counts the alternator-voltage pin delivers in the scripted part.
EdgeLow == 591
EdgeHigh == 640
EdgePeriods == 11
EdgeFinal == << 847, 867, 867, 867, 867, 867, 867, 835, 867, 867, 919 >>

Fill(count) == [i \in 1..altReadCount |-> count]

RECURSIVE Swing(_)
Swing(n) ==
    IF n = 0 THEN << >> ELSE Fill(EdgeHigh) \o Fill(EdgeLow) \o Swing(n - 1)

EdgeScript == Fill(EdgeLow) \o Swing(EdgePeriods) \o EdgeFinal

\* The total of the counts in the window when EdgeScript ends.
EdgeSum == WindowSum([i \in 0..(altReadCount - 1) |-> EdgeFinal[i + 1]],
                     altReadCount)

EdgeVoltages == { alternatorVoltageMax - 1, alternatorVoltageMax,
                  alternatorVoltageMax + 1 }

\* alternatorVoltageIn = smoothAltVoltage(), the pin delivering the next
\* count of the script.
smoothAltVoltageNext ==
    /\ script # << >>
    /\ LET sm == smoothAltVoltageF32(altReadings, altReadIndex, altReadTotal,
                                     Head(script))
       IN  /\ altReadings' = sm.readings
           /\ altReadIndex' = sm.index
           /\ altReadTotal' = sm.total
           /\ alternatorVoltageIn' = sm.result
    /\ script' = Tail(script)
    /\ UNCHANGED << pc, now, alternatorCurrentIn, batteryVoltageIn,
                    batteryCurrentIn, systemLedTemperatureIn, boostVoltageIn,
                    chargeCharge, chargeDone, chargePower, errorLevel,
                    statusVars, ledVars, alarmVars, indicatorVars,
                    led2OffsetP1, systemLedRange, I_BATT, LED_BRT, LED1_PWM,
                    LED2_PWM >>

InitEdge ==
    \/ InitState(Dyadic(0, 1), EdgeScript)
    \/ SnapshotInit({ << EdgeSum, v >> : v \in EdgeVoltages },
                    {NominalBoost}, {0}, {0}, {batteryVoltageMid}, {0},
                    {ChargerIdle}, {MaxTime}, {LOW})

NextEdge ==
    \/ smoothAltVoltageNext
    \/ NextFn

SpecEdge == InitEdge /\ [][NextEdge]_vars

-----------------------------------------------------------------------------
(* The earlier variants of the sketch                                      *)

\* The state of a variant after its setup(): pc0 is the position of its
\* loop(), level0 its systemLedLevelOut.  Globals of the final sketch that
\* the variant lacks keep the values given here.
VariantInit(pc0, level0) ==
    /\ pc = pc0
    /\ now = 0
    /\ altReadings = [i \in 0..(altReadCount - 1) |-> 0]
    /\ altReadIndex = 0
    /\ altReadTotal = 0
    /\ alternatorVoltageIn = 0
    /\ alternatorCurrentIn = 0
    /\ batteryVoltageIn = 0
    /\ batteryCurrentIn = 0
    /\ systemLedTemperatureIn = 0
    /\ boostVoltageIn = 0
    /\ chargeCharge = LOW
    /\ chargeDone = LOW
    /\ chargePower = LOW
    /\ errorLevel = 0
    /\ alternatorStatus = 0
    /\ batteryStatus = 0
    /\ chargeStatus = 0
    /\ systemLedLevelOut = level0
    /\ led1Level = 0
    /\ led2Level = 0
    /\ alarmState = LOW
    /\ alarmAudibleTime = 0
    /\ displayUpdateTime = 0
    /\ indicatorBlinkTime = 0
    /\ indicatorBlinkState = LOW
    /\ alarmPin = LOW
    /\ dac1 = 4095
    /\ dac2 = 4095
    /\ pixels = [i \in 0..2 |-> indOff]
    /\ script = << >>

(* part_001: the DAC variant with the dead zones.  int is 16 bits wide on  *)
(* the ATmega328, long 32 bits.                                            *)

ledLevelHiDz == 106
ledLevelLoDz == 410
ledLevelIncrement == 1

\* A value converted to a 16-bit int, and to the uint16_t setVoltage() takes.
Wrap16(n) == ((n + 32768) % 65536) - 32768
Uint16(n) == n % 65536

\* The product a * b of two ints.  A product outside the int range is
\* undefined: the 16-bit multiply wraps it, a build that folds the
\* expression in wider arithmetic keeps it.
IntProduct(a, b) ==
    IF a * b = Wrap16(a * b) THEN {a * b} ELSE {Wrap16(a * b), a * b}

\* long led2Offset = dacRange*75/100;
led2OffsetOutcomes == { TruncDiv(prod, 100) : prod \in IntProduct(dacRange, 75) }

\* long systemLedRange = dacRange*175/100;
systemLedRangeOutcomes ==
    { TruncDiv(prod, 100) : prod \in IntProduct(dacRange, 175) }

\* setMainLeds() of part_001 at the level out.
setMainLedsP1(out) ==
    /\ led1Level' = IF out >= dacRange - ledLevelHiDz THEN dacRange ELSE out
    /\ led2Level' = IF out <= led2OffsetP1 + ledLevelLoDz THEN 1
                    ELSE out - led2OffsetP1
    /\ dac1' = Uint16(dacRange - led1Level')
    /\ dac2' = Uint16(dacRange - led2Level')

unusedByP1 == << pc, now, sensorVars, errorLevel, statusVars, alarmVars,
                indicatorVars, variantVars >>

increaseLedLevel ==
    /\ pc = "part_001"
    /\ systemLedLevelOut' =
          IF systemLedLevelOut >= systemLedRange - ledLevelHiDz
          THEN Wrap16(systemLedRange)
          ELSE Wrap16(systemLedLevelOut + ledLevelIncrement)
    /\ setMainLedsP1(systemLedLevelOut')
    /\ UNCHANGED unusedByP1

decreaseLedLevel ==
    /\ pc = "part_001"
    /\ systemLedLevelOut' =
          IF systemLedLevelOut <= ledLevelLoDz THEN 1
          ELSE Wrap16(systemLedLevelOut - ledLevelIncrement)
    /\ setMainLedsP1(systemLedLevelOut')
    /\ UNCHANGED unusedByP1

InitP1 ==
    /\ VariantInit("part_001", 0)
    /\ led2OffsetP1 \in led2OffsetOutcomes
    /\ systemLedRange \in systemLedRangeOutcomes
    /\ I_BATT = 0
    /\ LED_BRT = 0
    /\ LED1_PWM = 0
    /\ LED2_PWM = 0

NextP1 ==
    \/ increaseLedLevel
    \/ decreaseLedLevel

SpecP1 == InitP1 /\ [][NextP1]_vars

(* part_002: the PWM variant.  Its loop() is followed through the calls    *)
(* readSensors(), checkOverCurrent() and the four calls of adjustLEDPWM(); *)
(* one step of checkOverCurrent is one test of its while condition.        *)

I_BATT_MAX == 77
LED_MAX == 447
LED_MIN == 48
PWM_INCR == 1

\* The counts the battery-current pin delivers: no current, and a current
\* above I_BATT_MAX.
BattCounts == {511, 600}

\* setLEDs() at the brightness brt.
setLEDs(brt) ==
    LET b1 == IF brt > LED_MAX THEN LED_MAX ELSE brt
        b2 == IF b1 < LED_MIN THEN LED_MIN ELSE b1
        p2 == b2 - 192
    IN  /\ LED_BRT' = b2
        /\ LED1_PWM' = IF b2 > 255 THEN 255 ELSE b2
        /\ LED2_PWM' = IF p2 < 0 THEN 0 ELSE p2

increaseLEDPWM ==
    setLEDs(IF LED_BRT <= LED_MAX THEN LED_BRT + PWM_INCR ELSE LED_BRT)

decreaseLEDPWM ==
    setLEDs(IF LED_BRT >= LED_MIN THEN LED_BRT - PWM_INCR ELSE LED_BRT)

unusedByP2 == << now, sensorVars, errorLevel, statusVars, ledVars, alarmVars,
                indicatorVars, script, led2OffsetP1, systemLedRange >>

\* loop(): readSensors().
readSensorsP2(count) ==
    /\ pc = "readSensorsP2"
    /\ I_BATT' = Abs(count - 511)
    /\ pc' = "checkOverCurrent"
    /\ UNCHANGED << LED_BRT, LED1_PWM, LED2_PWM >>
    /\ UNCHANGED unusedByP2

\* checkOverCurrent(): one test of the while condition, and the body when
\* it holds; count is what the readSensors() of the body reads.
checkOverCurrent(count) ==
    /\ pc = "checkOverCurrent"
    /\ IF I_BATT >= I_BATT_MAX
          THEN /\ decreaseLEDPWM
               /\ I_BATT' = Abs(count - 511)
               /\ pc' = pc
          ELSE /\ pc' = "adjustLEDPWM"
               /\ UNCHANGED << I_BATT, LED_BRT, LED1_PWM, LED2_PWM >>
    /\ UNCHANGED unusedByP2

\* The rest of loop(): R_SYS and the band of V_ALT decide whether
\* adjustLEDPWM() raises the brightness, lowers it, or leaves it.
adjustLEDPWM ==
    /\ pc = "adjustLEDPWM"
    /\ \/ increaseLEDPWM
       \/ decreaseLEDPWM
       \/ UNCHANGED << LED_BRT, LED1_PWM, LED2_PWM >>
    /\ pc' = "readSensorsP2"
    /\ UNCHANGED I_BATT
    /\ UNCHANGED unusedByP2

(* README.md: the DAC variant without dead zones.                          *)

alternatorVoltageMaxReadme == 22000000      \* 22.0 V, in uV
batteryCurrentMaxReadme == 2000             \* 2000.0 mA
systemLedLevelMinReadme == 440
ledLevelMax == 4096
ledLevelMin == 0

\* What altVI.getBusVoltage_V() and battVI.getCurrent_mA() deliver: an
\* alternator below and at its maximum, a battery idle and at its maximum.
ReadmeVoltages == {12000000, alternatorVoltageMaxReadme}
ReadmeCurrents == {0, batteryCurrentMaxReadme}

\* setMainLeds() of README.md at the level out.
setMainLedsReadme(out) ==
    LET o1 == IF out > systemLedLevelMax THEN systemLedLevelMax ELSE out
        o2 == IF o1 < systemLedLevelMinReadme THEN systemLedLevelMinReadme
              ELSE o1
        l2 == o2 - (ledLevelMax \div 4) * 3
    IN  /\ systemLedLevelOut' = o2
        /\ led1Level' = IF o2 > ledLevelMax THEN ledLevelMax ELSE o2
        /\ led2Level' = IF l2 < ledLevelMin THEN ledLevelMin ELSE l2
        /\ dac1' = led1Level'
        /\ dac2' = led2Level'

increaseLedLevelReadme ==
    setMainLedsReadme(IF systemLedLevelOut <= systemLedLevelMax
                      THEN systemLedLevelOut + ledLevelIncrement
                      ELSE systemLedLevelOut)

decreaseLedLevelReadme ==
    setMainLedsReadme(IF systemLedLevelOut >= systemLedLevelMinReadme
                      THEN systemLedLevelOut - ledLevelIncrement
                      ELSE systemLedLevelOut)

unusedByReadme == << now, altReadings, altReadIndex, altReadTotal,
                    alternatorCurrentIn, batteryVoltageIn,
                    systemLedTemperatureIn, boostVoltageIn, chargeCharge,
                    chargeDone, chargePower, errorLevel, statusVars,
                    alarmVars, indicatorVars, variantVars >>

\* loop(): readSensors().
readSensorsReadme(vAlt, iBatt) ==
    /\ pc = "readSensorsReadme"
    /\ alternatorVoltageIn' = vAlt
    /\ batteryCurrentIn' = iBatt
    /\ pc' = "checkBattOverCurrent"
    /\ UNCHANGED ledVars
    /\ UNCHANGED unusedByReadme

\* checkBattOverCurrent(): one test of the while condition, and the body.
checkBattOverCurrent(vAlt, iBatt) ==
    /\ pc = "checkBattOverCurrent"
    /\ IF batteryCurrentIn >= batteryCurrentMaxReadme
          THEN /\ decreaseLedLevelReadme
               /\ alternatorVoltageIn' = vAlt
               /\ batteryCurrentIn' = iBatt
               /\ pc' = pc
          ELSE /\ pc' = "checkAltOverVoltage"
               /\ UNCHANGED << alternatorVoltageIn, batteryCurrentIn,
                               ledVars >>
    /\ UNCHANGED unusedByReadme

\* checkAltOverVoltage(): one test of the while condition, and the body.
checkAltOverVoltage(vAlt, iBatt) ==
    /\ pc = "checkAltOverVoltage"
    /\ IF alternatorVoltageIn >= alternatorVoltageMaxReadme
          THEN /\ increaseLedLevelReadme
               /\ alternatorVoltageIn' = vAlt
               /\ batteryCurrentIn' = iBatt
               /\ pc' = pc
          ELSE /\ pc' = "adjustLedPwm"
               /\ UNCHANGED << alternatorVoltageIn, batteryCurrentIn,
                               ledVars >>
    /\ UNCHANGED unusedByReadme

\* The rest of loop(): the impedance decides whether adjustLedPwm() raises
\* the level, lowers it, or leaves it.
adjustLedPwm ==
    /\ pc = "adjustLedPwm"
    /\ \/ increaseLedLevelReadme
       \/ decreaseLedLevelReadme
       \/ UNCHANGED ledVars
    /\ pc' = "readSensorsReadme"
    /\ UNCHANGED << alternatorVoltageIn, batteryCurrentIn >>
    /\ UNCHANGED unusedByReadme

InitLoops ==
    \/ VariantInit("readSensorsP2", 0) /\ PartsUnused
    \/ VariantInit("readSensorsReadme", 0) /\ PartsUnused

NextLoops ==
    \/ \E count \in BattCounts : readSensorsP2(count)
    \/ \E count \in BattCounts : checkOverCurrent(count)
    \/ adjustLEDPWM
    \/ \E vAlt \in ReadmeVoltages, iBatt \in ReadmeCurrents :
          readSensorsReadme(vAlt, iBatt)
    \/ \E vAlt \in ReadmeVoltages, iBatt \in ReadmeCurrents :
          checkBattOverCurrent(vAlt, iBatt)
    \/ \E vAlt \in ReadmeVoltages, iBatt \in ReadmeCurrents :
          checkAltOverVoltage(vAlt, iBatt)
    \/ adjustLedPwm

\* The processor never stops: whatever step the sketch is at is taken.
SpecLoops == InitLoops /\ [][NextLoops]_vars /\ WF_vars(NextLoops)

-----------------------------------------------------------------------------
(* Properties                                                              *)

\* The stages of a cycle that follow the named call.
AfterThresholds == pc \in {"checkAudibleAlarm", "setMainLeds", "display"}
AfterAlarm == pc \in {"setMainLeds", "display"}
AfterMainLeds == pc = "display"

\* The six threshold conditions on the current snapshot, in source order.
RuleFires(i) ==
    CASE i = 1 -> systemLedTemperatureIn >= systemLedTemperatureHi
      [] i = 2 -> alternatorVoltageIn >= alternatorVoltageMax
      [] i = 3 -> alternatorCurrentIn >= alternatorCurrentMax
      [] i = 4 -> batteryCurrentIn >= batteryCurrentMax
      [] i = 5 -> systemLedTemperatureIn >= systemLedTemperatureMax
      [] i = 6 -> batteryVoltageIn <= batteryVoltageMin

RuleSeverity == << 1, 2, 2, 3, 3, 3 >>

FiredRules == { i \in 1..6 : RuleFires(i) }

MaxOf(S) == CHOOSE m \in S : \A n \in S : n <= m

OverdriveCondition == RuleFires(2) \/ RuleFires(3)
OverloadCondition == RuleFires(4) \/ RuleFires(5) \/ RuleFires(6)

\* C1: after setMainLeds() the commanded brightness systemLedLevelOut lies
\* in [systemLedLevelMin, systemLedLevelMax], whatever the error level and
\* the alternator and boost voltages are.
C1_BrightnessClamped ==
    AfterMainLeds =>
        /\ systemLedLevelOut >= systemLedLevelMin
        /\ systemLedLevelOut <= systemLedLevelMax

\* C1 witness: a warning-or-OK cycle above alternatorVoltageHi, where the
\* interpolation overshoots and the clamp brings the level to the maximum.
C1_Witness ==
    /\ AfterMainLeds
    /\ errorLevel <= 1
    /\ alternatorVoltageIn > alternatorVoltageHi
    /\ systemLedLevelOut = systemLedLevelMax

\* C2: with errorLevel 2 (overdrive) setMainLeds() leaves systemLedLevelOut
\* at systemLedLevelMax for every alternator and boost voltage.
C2_OverdriveMax ==
    (AfterMainLeds /\ errorLevel = 2) => systemLedLevelOut = systemLedLevelMax

\* C2 witness: overdrive at an alternator voltage below Vpcc, where the
\* normal adjustment would give the minimum.
C2_Witness ==
    /\ AfterMainLeds
    /\ errorLevel = 2
    /\ alternatorVoltageIn < alternatorVoltageVpcc
    /\ systemLedLevelOut = systemLedLevelMax

\* C3: with errorLevel 3 (overload) setMainLeds() leaves systemLedLevelOut
\* at systemLedLevelMin for every alternator and boost voltage.
C3_OverloadMin ==
    (AfterMainLeds /\ errorLevel = 3) => systemLedLevelOut = systemLedLevelMin

\* C3 witness: overload at an alternator voltage above alternatorVoltageHi,
\* where the normal adjustment would give the maximum.
C3_Witness ==
    /\ AfterMainLeds
    /\ errorLevel = 3
    /\ alternatorVoltageIn > alternatorVoltageHi
    /\ systemLedLevelOut = systemLedLevelMin

\* C4: the alarm's switch from LOW to HIGH records the time t0 in
\* alarmAudibleTime, and in every step that ends before
\* t0 + alarmAudibleDuration the alarm stays HIGH (state and pin) with t0
\* unchanged, also when errorLevel is 0.
C4_AlarmHeld ==
    [][ /\ (~alarmState /\ alarmState') => alarmAudibleTime' = now'
        /\ (alarmState /\ now' < alarmAudibleTime + alarmAudibleDuration) =>
              /\ alarmState'
              /\ alarmPin' = HIGH
              /\ alarmAudibleTime' = alarmAudibleTime ]_vars

\* C4 witness: checkAudibleAlarm() has run with errorLevel 0 after the
\* activation and before the audible duration is over; the alarm is HIGH.
C4_Witness ==
    /\ pc = "setMainLeds"
    /\ errorLevel = 0
    /\ alarmPin = HIGH
    /\ now > alarmAudibleTime
    /\ now < alarmAudibleTime + alarmAudibleDuration

\* C5: in a cycle in which a threshold condition holds, errorLevel is > 0
\* after checkThresholds() and the alarm pin is HIGH after
\* checkAudibleAlarm(); and no step takes the alarm from HIGH to LOW while
\* errorLevel is > 0.
C5_FaultSoundsAlarm ==
    /\ []((AfterThresholds /\ FiredRules # {}) => errorLevel > 0)
    /\ []((AfterAlarm /\ FiredRules # {}) => alarmPin = HIGH)
    /\ [][(errorLevel > 0 /\ alarmPin = HIGH) => alarmPin' = HIGH]_vars

\* C5 witness: a fault persists after the audible duration is over, and the
\* alarm is still HIGH after checkAudibleAlarm().
C5_Witness ==
    /\ pc = "setMainLeds"
    /\ FiredRules # {}
    /\ alarmPin = HIGH
    /\ now >= alarmAudibleTime + alarmAudibleDuration

C7_BatteryUndervoltage ==
    batteryVoltageIn <= batteryVoltageMin =>
        /\ AfterThresholds => errorLevel = 3
        /\ AfterAlarm => alarmPin = HIGH
        /\ AfterMainLeds => systemLedLevelOut = systemLedLevelMin
        /\ pc = "loop" => batteryStatus = 0

\* C7 witness: the cycle has ended with the indicator updated (the battery
\* lamp shows the blinking red of status 0) while the alternator is in
\* over-voltage and the battery at its minimum.
C7_Witness ==
    /\ pc = "loop"
    /\ batteryVoltageIn = batteryVoltageMin
    /\ alternatorVoltageIn >= alternatorVoltageMax
    /\ displayUpdateTime = now
    /\ pixels[1] = indRed
    /\ batteryStatus = 0
    /\ systemLedLevelOut = systemLedLevelMin
    /\ alarmPin = HIGH

\* C8: after checkThresholds() errorLevel is the highest severity among the
\* rules whose condition holds, 0 if none holds.
C8_HighestSeverity ==
    AfterThresholds =>
        errorLevel = MaxOf({0} \cup {RuleSeverity[i] : i \in FiredRules})

\* C8 witness: the severity-1 rule and a severity-3 rule hold together, no
\* severity-2 rule does.
C8_Witness ==
    /\ AfterThresholds
    /\ RuleFires(1)
    /\ RuleFires(4)
    /\ ~OverdriveCondition
    /\ errorLevel = 3

\* C9: after checkThresholds() errorLevel is the severity of the last rule,
\* in source order, whose condition holds, 0 if none holds.
C9_LastRuleWins ==
    AfterThresholds =>
        errorLevel = IF FiredRules = {} THEN 0
                     ELSE RuleSeverity[MaxOf(FiredRules)]

\* C9 witness: the last rule that holds is the alternator over-current
\* rule, after the temperature rule and the over-voltage rule.
C9_Witness ==
    /\ AfterThresholds
    /\ FiredRules = {1, 2, 3}
    /\ errorLevel = 2

UpdatedFn == pc = "loop" /\ displayUpdateTime # 0

\* The three voltage bands of the brightness curve for a boost voltage b.
InBand(k, v, b) ==
    CASE k = 1 -> v < alternatorVoltageVpcc
      [] k = 2 -> v >= alternatorVoltageVpcc /\ v <= b
      [] k = 3 -> v > b

\* out is the linear interpolation from y0 at x0 to y1 at x1, taken at x and
\* rounded down to an integer.
Interpolates(out, x, x0, x1, y0, y1) ==
    LET d == x1 - x0
        n == (x - x0) * (y1 - y0)
    IN  /\ d > 0
        /\ (out - y0) * d <= n
        /\ n < (out - y0 + 1) * d

\* C11: for errorLevel <= 1 and the boost voltage of the cycle, no lower
\* alternator voltage of the same band gives a higher brightness than the
\* one setMainLeds() has set.
C11_MonotoneInBand ==
    (AfterMainLeds /\ errorLevel <= 1) =>
        \A t \in AltSumGrid :
           LET v == AltVoltageOfSum(t)
           IN  (/\ v <= alternatorVoltageIn
                /\ \E k \in 1..3 : /\ InBand(k, v, boostVoltageIn)
                                   /\ InBand(k, alternatorVoltageIn,
                                             boostVoltageIn))
               => \A o \in systemLedLevel(errorLevel, v, boostVoltageIn,
                                          systemLedLevelOut) :
                     o <= systemLedLevelOut

\* C11 witness: an OK cycle inside the top band, brightness strictly
\* between the band's two ends.
C11_Witness ==
    /\ AfterMainLeds
    /\ errorLevel = 0
    /\ alternatorVoltageIn > boostVoltageIn
    /\ boostVoltageIn > alternatorVoltageVpcc
    /\ alternatorVoltageIn < alternatorVoltageHi
    /\ systemLedLevelOut > systemLedLevelBbu
    /\ systemLedLevelOut < systemLedLevelMax

\* C12 as claimed: the curve's lower breakpoint is alternatorVoltageMin.
C12_Original ==
    (AfterMainLeds /\ errorLevel <= 1) =>
        /\ alternatorVoltageIn < alternatorVoltageMin =>
              systemLedLevelOut = systemLedLevelMin
        /\ (/\ alternatorVoltageIn >= alternatorVoltageMin
            /\ alternatorVoltageIn <= boostVoltageIn) =>
              Interpolates(systemLedLevelOut, MilliOf(alternatorVoltageIn),
                           MilliOf(alternatorVoltageMin),
                           MilliOf(boostVoltageIn),
                           systemLedLevelMin, systemLedLevelBbu)

\* C12 amended: the lower breakpoint is alternatorVoltageVpcc.  For
\* errorLevel <= 1 the brightness is systemLedLevelMin below Vpcc, and
\* between Vpcc and the boost voltage it is the linear interpolation, in
\* whole millivolts and rounded down, from systemLedLevelMin at Vpcc to
\* systemLedLevelBbu at the boost voltage.
C12_VpccBreakpoint ==
    (AfterMainLeds /\ errorLevel <= 1) =>
        /\ alternatorVoltageIn < alternatorVoltageVpcc =>
              systemLedLevelOut = systemLedLevelMin
        /\ (/\ alternatorVoltageIn >= alternatorVoltageVpcc
            /\ alternatorVoltageIn <= boostVoltageIn) =>
              Interpolates(systemLedLevelOut, MilliOf(alternatorVoltageIn),
                           MilliOf(alternatorVoltageVpcc),
                           MilliOf(boostVoltageIn),
                           systemLedLevelMin, systemLedLevelBbu)

\* C12 witness: an OK cycle between alternatorVoltageMin and Vpcc with the
\* boost voltage above both: minimum brightness, not an interpolated one.
C12_Witness ==
    /\ AfterMainLeds
    /\ errorLevel = 0
    /\ alternatorVoltageIn > alternatorVoltageMin + 1000000
    /\ alternatorVoltageIn < alternatorVoltageVpcc
    /\ boostVoltageIn > alternatorVoltageVpcc
    /\ systemLedLevelOut = systemLedLevelMin

\* C13: setMainLeds() sets led1Level to min(dacRange, systemLedLevelOut)
\* and led2Level to max(ledDeadZoneLow, systemLedLevelOut - led2Offset);
\* at or below led2Offset + ledDeadZoneLow led2Level is ledDeadZoneLow, and
\* once setMainLeds() has run led2Level is never below ledDeadZoneLow.
C13_ChannelSplit ==
    /\ AfterMainLeds =>
          /\ led1Level = IF dacRange < systemLedLevelOut
                         THEN dacRange ELSE systemLedLevelOut
          /\ led2Level = MaxOf({ledDeadZoneLow,
                                systemLedLevelOut - led2Offset})
          /\ systemLedLevelOut <= led2Offset + ledDeadZoneLow =>
                led2Level = ledDeadZoneLow
    /\ led1Level # 0 => led2Level >= ledDeadZoneLow

\* C13 witness: brightness above led2Offset but inside the dead zone; LED1
\* follows the brightness, LED2 is pinned to ledDeadZoneLow.
C13_Witness ==
    /\ AfterMainLeds
    /\ systemLedLevelOut > led2Offset
    /\ systemLedLevelOut < led2Offset + ledDeadZoneLow
    /\ led1Level = systemLedLevelOut
    /\ led2Level = ledDeadZoneLow

\* Whether one of the three status channels asks for the blink phase.
BlinkChannels(aStat, bStat, cStat) ==
    aStat = 5 \/ bStat = 0 \/ cStat \in {2, 5}

\* The indicator update of the step being taken: setIndicatorLed() applied
\* to the blink phase before the step and the statuses checkPowerStatus()
\* leaves.
IndicatorCall ==
    setIndicatorLed([state |-> indicatorBlinkState,
                     time |-> indicatorBlinkTime],
                    now, alternatorStatus', batteryStatus', chargeStatus',
                    pixels)

\* The step is the last stage of loop() with the display gate open.
DisplayUpdateStep ==
    pc = "display" /\ pc' = "loop" /\ displayDue(now, displayUpdateTime)

\* C14: in an indicator update the blink phase flips once when a blinking
\* status is shown and indicatorBlinkInterval ms have passed since the last
\* flip, and not at all otherwise, however many of the three channels call
\* blinkIndicatorLed(); the phase flips nowhere else and every flip records
\* its time.
C14_BlinkOncePerInterval ==
    [][ /\ DisplayUpdateStep =>
              /\ IndicatorCall.flips =
                    IF /\ BlinkChannels(alternatorStatus', batteryStatus',
                                        chargeStatus')
                       /\ now >= indicatorBlinkTime + indicatorBlinkInterval
                    THEN 1 ELSE 0
              /\ (indicatorBlinkState' # indicatorBlinkState)
                    <=> (IndicatorCall.flips = 1)
        /\ indicatorBlinkState' # indicatorBlinkState =>
              /\ DisplayUpdateStep
              /\ indicatorBlinkTime' = now
        /\ indicatorBlinkTime' # indicatorBlinkTime =>
              indicatorBlinkState' # indicatorBlinkState
      ]_vars

\* C14 witness: an update in which the battery and the charger channel
\* both blink has just flipped the phase to HIGH, once.
C14_Witness ==
    /\ pc = "loop"
    /\ batteryStatus = 0
    /\ chargeStatus = 5
    /\ displayUpdateTime = now
    /\ indicatorBlinkTime = now
    /\ now > 0
    /\ indicatorBlinkState = HIGH
    /\ pixels[0] = indRed
    /\ pixels[1] = indRed

\* The order in which loop() runs its stages.
CycleOrder ==
    { <<"loop", "readSensors">>, <<"readSensors", "checkThresholds">>,
      <<"checkThresholds", "checkAudibleAlarm">>,
      <<"checkAudibleAlarm", "setMainLeds">>, <<"setMainLeds", "display">>,
      <<"display", "loop">> }

\* C15: the indicator is updated exactly in the cycles in which millis() >=
\* displayUpdateTime + displayUpdateInterval, so two updates are at least
\* displayUpdateInterval ms apart; checkThresholds(), checkAudibleAlarm()
\* and setMainLeds() run in every cycle, before the gate is looked at.
C15_DisplayGated ==
    [][ /\ (pc = "display" /\ pc' = "loop") =>
              IF now >= displayUpdateTime + displayUpdateInterval
              THEN /\ displayUpdateTime' = now
                   /\ alternatorStatus' =
                         alternatorStatusOf(alternatorStatus,
                                            alternatorVoltageIn,
                                            boostVoltageIn)
                   /\ batteryStatus' =
                         batteryStatusOf(batteryStatus, batteryVoltageIn)
                   /\ chargeStatus' =
                         chargeStatusOf(chargeStatus, chargePower,
                                        chargeCharge, chargeDone)
                   /\ pixels' = IndicatorCall.pixels
              ELSE UNCHANGED << statusVars, indicatorVars >>
        /\ indicatorVars' # indicatorVars =>
              /\ pc = "display"
              /\ displayUpdateTime' = now
              /\ now >= displayUpdateTime + displayUpdateInterval
        /\ pc' # pc => << pc, pc' >> \in CycleOrder
        /\ (pc = "checkThresholds" /\ pc' # pc) =>
              errorLevel' = checkThresholdsLevel(errorLevel,
                                systemLedTemperatureIn, alternatorVoltageIn,
                                alternatorCurrentIn, batteryCurrentIn,
                                batteryVoltageIn)
        /\ (pc = "checkAudibleAlarm" /\ pc' # pc) =>
              alarmState' = alarmLatch([state |-> alarmState,
                                        time |-> alarmAudibleTime],
                                       errorLevel, now).state
        /\ (pc = "setMainLeds" /\ pc' # pc) =>
              systemLedLevelOut' \in systemLedLevel(errorLevel,
                                        alternatorVoltageIn, boostVoltageIn,
                                        systemLedLevelOut)
      ]_vars

\* C15 witness: a cycle that ended less than displayUpdateInterval ms after
\* the last indicator update; it switched the alarm on and left the
\* indicator alone.
C15_Witness ==
    /\ pc = "loop"
    /\ displayUpdateTime > 0
    /\ now > displayUpdateTime
    /\ now < displayUpdateTime + displayUpdateInterval
    /\ alarmState = HIGH
    /\ alarmAudibleTime = now
    /\ led1Level # 0

\* Whether the range of alternator status band k contains the alternator
\* voltage of the cycle.
AlternatorBand(k) ==
    CASE k = 0 -> alternatorVoltageIn <= alternatorVoltageMin
      [] k = 1 -> /\ alternatorVoltageIn > alternatorVoltageMin
                  /\ alternatorVoltageIn <= alternatorVoltageVpcc
      [] k = 2 -> /\ alternatorVoltageIn > alternatorVoltageVpcc
                  /\ alternatorVoltageIn <= boostVoltageIn
      [] k = 3 -> /\ alternatorVoltageIn > boostVoltageIn
                  /\ alternatorVoltageIn <= alternatorVoltageHi
      [] k = 4 -> /\ alternatorVoltageIn > alternatorVoltageHi
                  /\ alternatorVoltageIn <= alternatorVoltageMax
      [] k = 5 -> alternatorVoltageIn > alternatorVoltageMax

MatchingBands == { k \in 0..5 : AlternatorBand(k) }

MinOf(S) == CHOOSE m \in S : \A n \in S : m <= n

\* C16 as claimed: after an indicator update alternatorStatus is the last
\* band, in the order 0..5, whose range contains the alternator voltage.
C16_Original ==
    UpdatedFn =>
        /\ MatchingBands # {}
        /\ alternatorStatus = MaxOf(MatchingBands)

\* C16 amended: the bands are tested in an else-if chain, so after an
\* indicator update alternatorStatus is the first band, in the order 0..5,
\* whose range contains the alternator voltage, for every alternator and
\* boost voltage; some band always matches.
C16_FirstBandWins ==
    UpdatedFn =>
        /\ MatchingBands # {}
        /\ alternatorStatus = MinOf(MatchingBands)

\* C16 witness: an update with the boost voltage below the alternator
\* voltage and both below alternatorVoltageVpcc, where bands 1 and 3 both
\* match and the status is 1.
C16_Witness ==
    /\ UpdatedFn
    /\ AlternatorBand(1)
    /\ AlternatorBand(3)
    /\ alternatorStatus = 1
    /\ pixels[2] = indYel

\* C17: for errorLevel <= 1, from alternatorVoltageVpcc up to the boost
\* voltage the brightness lies in [systemLedLevelMin, systemLedLevelBbu]
\* and is systemLedLevelBbu at the boost voltage; above the boost voltage
\* (and at or above Vpcc) it lies in [systemLedLevelBbu - 350,
\* systemLedLevelMax] and is systemLedLevelMax from alternatorVoltageHi on.
C17_BandRanges ==
    (AfterMainLeds /\ errorLevel <= 1) =>
        /\ (/\ alternatorVoltageIn >= alternatorVoltageVpcc
            /\ alternatorVoltageIn <= boostVoltageIn) =>
              /\ systemLedLevelOut >= systemLedLevelMin
              /\ systemLedLevelOut <= systemLedLevelBbu
              /\ alternatorVoltageIn = boostVoltageIn =>
                    systemLedLevelOut = systemLedLevelBbu
        /\ (/\ alternatorVoltageIn > boostVoltageIn
            /\ alternatorVoltageIn >= alternatorVoltageVpcc) =>
              /\ systemLedLevelOut >= systemLedLevelBbu - bbuBandDrop
              /\ systemLedLevelOut <= systemLedLevelMax
              /\ alternatorVoltageIn >= alternatorVoltageHi =>
                    systemLedLevelOut = systemLedLevelMax

\* C17 witness: an OK or warning cycle with the alternator voltage equal to
\* the boost voltage, above Vpcc: the brightness is systemLedLevelBbu.
C17_Witness ==
    /\ AfterMainLeds
    /\ errorLevel <= 1
    /\ alternatorVoltageIn = boostVoltageIn
    /\ alternatorVoltageIn > alternatorVoltageVpcc
    /\ systemLedLevelOut = systemLedLevelBbu

\* C18: for errorLevel <= 1 and an alternator voltage at or below
\* alternatorVoltageMin the brightness is systemLedLevelMin after
\* setMainLeds(), and an indicator update of the cycle leaves
\* alternatorStatus 0 and the alternator pixel red.
C18_BelowMinimum ==
    (errorLevel <= 1 /\ alternatorVoltageIn <= alternatorVoltageMin) =>
        /\ AfterMainLeds => systemLedLevelOut = systemLedLevelMin
        /\ UpdatedFn =>
              /\ systemLedLevelOut = systemLedLevelMin
              /\ alternatorStatus = 0
              /\ pixels[2] = indRed

\* C18 witness: a cycle at 0 V with a boost voltage below
\* alternatorVoltageMin has updated the indicator.
C18_Witness ==
    /\ UpdatedFn
    /\ errorLevel = 0
    /\ alternatorVoltageIn = 0
    /\ boostVoltageIn > 0
    /\ boostVoltageIn < alternatorVoltageMin
    /\ systemLedLevelOut = systemLedLevelMin
    /\ alternatorStatus = 0
    /\ pixels[2] = indRed

\* C19: the values handed to Led1.setVoltage and Led2.setVoltage lie in
\* 0..4095 in every reachable state, and once setMainLeds() has run they
\* are dacRange - led1Level and dacRange - led2Level.
C19_DacInRange ==
    /\ dac1 \in 0..4095
    /\ dac2 \in 0..4095
    /\ led1Level # 0 =>
          /\ dac1 = dacRange - led1Level
          /\ dac2 = dacRange - led2Level

\* C19 witness: overdrive, both channels at dacRange, both DAC values 0.
C19_Witness ==
    /\ AfterMainLeds
    /\ systemLedLevelOut = systemLedLevelMax
    /\ led1Level = dacRange
    /\ led2Level = dacRange
    /\ dac1 = 0
    /\ dac2 = 0

\* C20: alarmAudibleTime changes only in the step that takes alarmState
\* from LOW to HIGH; while the alarm is HIGH no step changes it; and when
\* checkAudibleAlarm() runs with errorLevel 0 at least alarmAudibleDuration
\* ms after the activation, the alarm goes LOW in that cycle.
C20_StampOnActivation ==
    [][ /\ alarmAudibleTime' # alarmAudibleTime =>
              /\ ~alarmState
              /\ alarmState'
              /\ pc = "checkAudibleAlarm"
              /\ errorLevel > 0
        /\ alarmState => alarmAudibleTime' = alarmAudibleTime
        /\ (/\ pc = "checkAudibleAlarm"
            /\ pc' # pc
            /\ alarmState
            /\ errorLevel = 0
            /\ now >= alarmAudibleTime + alarmAudibleDuration) =>
              /\ ~alarmState'
              /\ alarmPin' = LOW
      ]_vars

\* C20 witness: the alarm was switched on, the fault outlasted
\* alarmAudibleDuration, and the first cycle with errorLevel 0 has just
\* switched the alarm off; the activation time is still the first one.
C20_Witness ==
    /\ pc = "setMainLeds"
    /\ errorLevel = 0
    /\ alarmState = LOW
    /\ alarmPin = LOW
    /\ alarmAudibleTime > 0
    /\ now >= alarmAudibleTime + alarmAudibleDuration

\* C21: after checkThresholds() errorLevel is determined by the snapshot of
\* the cycle alone, whatever the earlier cycles left: it is the level of the
\* last rule that fires, and 0 when no rule fires.
C21_NoSeverityMemory ==
    AfterThresholds =>
        /\ errorLevel = checkThresholdsLevel(0, systemLedTemperatureIn,
                            alternatorVoltageIn, alternatorCurrentIn,
                            batteryCurrentIn, batteryVoltageIn)
        /\ FiredRules = {} => errorLevel = 0

\* C21 witness: the first cycle without a fault after a faulty one: no rule
\* fires and errorLevel is 0 while the alarm of the earlier fault still
\* sounds.
C21_Witness ==
    /\ pc = "checkAudibleAlarm"
    /\ FiredRules = {}
    /\ errorLevel = 0
    /\ alarmState = HIGH
    /\ now > alarmAudibleTime

\* The decoding of the charger lines <<chargePower, chargeCharge,
\* chargeDone>> the claim gives; the two combinations without a branch
\* give 0.
ChargeDecode(power, charge, done) ==
    CASE << power, charge, done >> = << HIGH, HIGH, HIGH >> -> 0
      [] << power, charge, done >> = << LOW, HIGH, HIGH >> -> 1
      [] << power, charge, done >> = << HIGH, LOW, HIGH >> -> 2
      [] << power, charge, done >> = << LOW, LOW, HIGH >> -> 3
      [] << power, charge, done >> = << LOW, HIGH, LOW >> -> 4
      [] << power, charge, done >> = << LOW, LOW, LOW >> -> 5
      [] OTHER -> 0

\* The battery band of a battery voltage.
BatteryBand(vBatt) ==
    IF vBatt <= batteryVoltageMin THEN 0
    ELSE IF vBatt <= batteryVoltageLow THEN 1
    ELSE IF vBatt <= batteryVoltageMid THEN 2
    ELSE IF vBatt <= batteryVoltageMax THEN 3
    ELSE 4

\* C22: the statuses an indicator update shows are functions of the
\* readings of its cycle: chargeStatus is the decoding of the three charger
\* lines (0 for HHL and HLL), batteryStatus the band of the battery
\* voltage, alternatorStatus the first band holding the alternator voltage;
\* alternatorStatus stays in 0..5, batteryStatus in 0..4.
C22_StatusFromReadings ==
    /\ [][ DisplayUpdateStep =>
              /\ chargeStatus' =
                    ChargeDecode(chargePower, chargeCharge, chargeDone)
              /\ batteryStatus' = BatteryBand(batteryVoltageIn)
              /\ alternatorStatus' = MinOf(MatchingBands)
         ]_vars
    /\ [](/\ alternatorStatus \in 0..5
          /\ batteryStatus \in 0..4
          /\ chargeStatus \in 0..5)

\* C22 witness: the second indicator update, with the charger lines in the
\* undecoded combination HHL: chargeStatus is 0 and its pixel red.
C22_Witness ==
    /\ pc = "loop"
    /\ displayUpdateTime = now
    /\ now >= 2 * displayUpdateInterval
    /\ chargePower = HIGH
    /\ chargeCharge = HIGH
    /\ chargeDone = LOW
    /\ chargeStatus = 0
    /\ batteryStatus = 4
    /\ pixels[0] = indRed

\* The pixels of the lamps whose status, after the step, is a blinking one.
BlinkingPixels ==
    (IF alternatorStatus' = 5 THEN {2} ELSE {})
    \cup (IF batteryStatus' = 0 THEN {1} ELSE {})
    \cup (IF chargeStatus' \in {2, 5} THEN {0} ELSE {})

\* C23 as claimed: in one indicator update during which less than
\* indicatorBlinkInterval ms pass, the blinking lamps are all red or all
\* off.
C23_Original ==
    [][ DisplayUpdateStep =>
           \A i \in BlinkingPixels, j \in BlinkingPixels :
              (pixels'[i] = indRed) <=> (pixels'[j] = indRed)
      ]_vars

\* C23, the diverging state: the battery lamp and the charger lamp both
\* blink, the update read the display gate at now - 1 and flipped the phase
\* in the charger lamp's call, after the battery lamp was set with the old
\* phase.
C23_SplitPhase ==
    /\ pc = "loop"
    /\ batteryStatus = 0
    /\ chargeStatus = 5
    /\ displayUpdateTime = now - 1
    /\ indicatorBlinkTime = now
    /\ pixels[1] # pixels[0]

\* The input range of the map() call setMainLeds() is about to make, if it
\* makes one: <<in_min, in_max>> in whole millivolts.
MapInputRange ==
    IF errorLevel > 1 \/ alternatorVoltageIn < alternatorVoltageVpcc
    THEN << >>
    ELSE IF alternatorVoltageIn <= boostVoltageIn
    THEN << MilliOf(alternatorVoltageVpcc), MilliOf(boostVoltageIn) >>
    ELSE << MilliOf(boostVoltageIn), MilliOf(alternatorVoltageHi) >>

\* C24: when setMainLeds() reaches a map() call, with errorLevel <= 1, the
\* input range of the call is not empty, so map() does not divide by zero,
\* and the brightness it leaves is the one the division gives.
C24_NoDivisionByZero ==
    /\ (pc = "setMainLeds" /\ MapInputRange # << >>) =>
          MapInputRange[1] # MapInputRange[2]
    /\ (AfterMainLeds /\ MapInputRange # << >>) =>
          /\ MapInputRange[1] # MapInputRange[2]
          /\ \/ alternatorVoltageIn > boostVoltageIn
             \/ Interpolates(systemLedLevelOut,
                             MilliOf(alternatorVoltageIn),
                             MapInputRange[1], MapInputRange[2],
                             systemLedLevelMin, systemLedLevelBbu)

\* C24 witness: the middle band at the boost count next above
\* alternatorVoltageVpcc, an input range of a few millivolts.
C24_Witness ==
    /\ AfterMainLeds
    /\ errorLevel = 0
    /\ alternatorVoltageIn >= alternatorVoltageVpcc
    /\ alternatorVoltageIn <= boostVoltageIn
    /\ MilliOf(boostVoltageIn) - MilliOf(alternatorVoltageVpcc) \in 1..19
    /\ systemLedLevelOut > systemLedLevelMin

\* The ms from the reading t0 of the 32-bit counter to the reading t, for
\* readings less than 2^31 ms apart: the difference of the two patterns.
Elapsed32(t, t0) == t - t0

\* C25 as claimed: for every activation time, the wrap of the counter
\* included, the alarm is not released before alarmAudibleDuration ms have
\* passed since its activation.
C25_Original ==
    [][ (alarmState /\ ~alarmState') =>
           Elapsed32(now, alarmAudibleTime) >= alarmAudibleDuration ]_vars

\* C25, the diverging state: the alarm was switched on less than
\* alarmAudibleDuration ms before the wrap and has been released before
\* the wrap, less than alarmAudibleDuration ms later.
C25_EarlyRelease ==
    /\ pc = "setMainLeds"
    /\ alarmState = LOW
    /\ alarmPin = LOW
    /\ alarmAudibleTime < 0
    /\ now < 0
    /\ now > alarmAudibleTime
    /\ Elapsed32(now, alarmAudibleTime) < alarmAudibleDuration

\* C26: if from some cycle on no rule fires, and the clock passes the
\* activation time plus alarmAudibleDuration, the alarm pin becomes LOW and
\* stays LOW; it goes LOW in the first checkAudibleAlarm() that runs with
\* errorLevel 0 at or after that time, and goes HIGH again only in a cycle
\* in which a rule fires.
C26_AlarmReleased ==
    /\ (/\ <>[](errorLevel = 0)
        /\ <>[](now >= alarmAudibleTime + alarmAudibleDuration))
          => <>[](alarmPin = LOW)
    /\ [][ (/\ pc = "checkAudibleAlarm"
            /\ pc' # pc
            /\ errorLevel = 0
            /\ now >= alarmAudibleTime + alarmAudibleDuration)
              => alarmPin' = LOW ]_vars
    /\ [][ (alarmPin = LOW /\ alarmPin' = HIGH) => errorLevel > 0 ]_vars

\* C26 witness: the alarm has been released in a cycle that ran exactly
\* alarmAudibleDuration ms after the activation.
C26_Witness ==
    /\ pc = "display"
    /\ errorLevel = 0
    /\ alarmPin = LOW
    /\ alarmAudibleTime > 0
    /\ now = alarmAudibleTime + alarmAudibleDuration

\* C28: after any sequence of smoothAltVoltage() calls altReadIndex is in
\* [0, altReadCount), altReadTotal is the sum of the altReadCount entries of
\* altReadings, and the value returned is the sum of the most recent
\* altReadCount scaled readings divided by altReadCount.
C28_Original ==
    /\ altReadIndex \in 0..(altReadCount - 1)
    /\ altReadTotal = WindowSum(altReadings, altReadCount)
    /\ alternatorVoltageIn =
          F32Quotient(WindowSum(altReadings, altReadCount), altReadCount)

\* C28, the diverging state: the last altReadCount readings were all 0, the
\* window holds altReadCount zeros, and the running total and the value
\* returned are not 0.
C28_DriftAtRest ==
    /\ \A i \in 0..(altReadCount - 1) : altReadings[i] = 0
    /\ altReadTotal # 0
    /\ alternatorVoltageIn.num # 0

\* C28, the part that holds: the index stays inside the window.
C28_IndexInRange == altReadIndex \in 0..(altReadCount - 1)

\* C27: in every cycle in which the indicator is updated, alternatorStatus
\* is 5 (blinking red) if and only if the over-voltage rule of
\* checkThresholds() (alternatorVoltageIn >= alternatorVoltageMax) fired.
C27_Original == UpdatedFn => (alternatorStatus = 5 <=> RuleFires(2))

\* C27, the diverging state: the cycle has ended with the over-voltage rule
\* fired (alarm on, LEDs forced to maximum) and the alternator lamp white.
C27_FaultWithoutLamp ==
    /\ UpdatedFn
    /\ alternatorVoltageIn = alternatorVoltageMax
    /\ alarmPin = HIGH
    /\ systemLedLevelOut = systemLedLevelMax
    /\ alternatorStatus = 4
    /\ pixels[2] = indWhite

\* C27, reachability of the input: smoothAltVoltage() has returned exactly
\* the float alternatorVoltageMax, from the state after setup().
C27_ExactThreshold ==
    /\ pc = "loop"
    /\ script = << >>
    /\ displayUpdateTime = 0
    /\ Len(EdgeScript) > 0
    /\ alternatorVoltageIn = Dyadic(alternatorVoltageMaxF32, 1)

\* C27, away from equality: whenever the smoothed voltage is not exactly
\* the threshold, the lamp and the rule agree.
C27_AgreeOffThreshold ==
    (UpdatedFn /\ alternatorVoltageIn # alternatorVoltageMax)
       => (alternatorStatus = 5 <=> RuleFires(2))

\* C29: in part_001 the initialisers dacRange*75/100 and dacRange*175/100,
\* computed in 16-bit int arithmetic, give led2Offset = 3072 and
\* systemLedRange = 7168 (75 % and 175 % of the DAC range), so that LED2
\* starts to light only after LED1 has passed 75 % of the DAC range.
C29_Original ==
    pc = "part_001" =>
       /\ led2OffsetP1 = (dacRange * 75) \div 100
       /\ systemLedRange = (dacRange * 175) \div 100
       /\ led2Level > 1 => led1Level > (dacRange * 75) \div 100

\* C29, the diverging state: with the wrapped products increaseLedLevel()
\* has set the level to the negative systemLedRange and passed a value
\* beyond the 12-bit DAC range to Led1.setVoltage().
C29_WrappedRange ==
    /\ pc = "part_001"
    /\ led2OffsetP1 = -204
    /\ systemLedRange = -40
    /\ systemLedLevelOut = -40
    /\ led1Level = -40
    /\ dac1 = dacRange + 40

\* C29, with the wrapped products the level never leaves {0, 1, -40} and
\* LED2 never lights.
C29_WrappedStuck ==
    (pc = "part_001" /\ led2OffsetP1 < 0 /\ systemLedRange < 0)
       => (systemLedLevelOut \in {0, 1, systemLedRange} /\ led2Level <= 1)

\* C30: in the earlier variants every loop() iteration terminates for every
\* sequence of sensor readings: checkOverCurrent() of part_002 and
\* checkBattOverCurrent() and checkAltOverVoltage() of README.md, once
\* entered, return.
C30_Original ==
    /\ (pc = "checkOverCurrent") ~> (pc = "adjustLEDPWM")
    /\ (pc = "checkBattOverCurrent") ~> (pc = "checkAltOverVoltage")
    /\ (pc = "checkAltOverVoltage") ~> (pc = "adjustLedPwm")

\* C30, the diverging state: checkOverCurrent() is about to test its
\* condition with the brightness at its lower clamp and the battery current
\* still at or above I_BATT_MAX.
C30_SpinAtClamp ==
    /\ pc = "checkOverCurrent"
    /\ LED_BRT = LED_MIN
    /\ LED1_PWM = LED_MIN
    /\ I_BATT >= I_BATT_MAX

\* C30, why the handlers spin: each returns only from a test that finds the
\* reading below its threshold, whatever the LED level is.
C30_ReturnOnlyBelow ==
    /\ [][ (pc = "checkOverCurrent" /\ pc' # pc)
             => I_BATT < I_BATT_MAX ]_vars
    /\ [][ (pc = "checkBattOverCurrent" /\ pc' # pc)
             => batteryCurrentIn < batteryCurrentMaxReadme ]_vars
    /\ [][ (pc = "checkAltOverVoltage" /\ pc' # pc)
             => alternatorVoltageIn < alternatorVoltageMaxReadme ]_vars

====
